---------------------------- MODULE Spec2Model ----------------------------
(***************************************************************************)
(* TinyWiFi (tinywifi/scan.py): the scan aggregator get_wifi_networks, the *)
(* text parsers it calls and the record finalizer.                         *)
(*                                                                         *)
(* Representation.  A Python str is a sequence of one-character strings,   *)
(* a text is the sequence of its lines (the result of str.splitlines()),   *)
(* a Python dict is a function whose domain is the set of keys present.    *)
(* A dict value whose Python type varies (int, str or None) is tagged:     *)
(* PyInt(n), PyStr(s), PyNone.                                             *)
(***************************************************************************)
EXTENDS Integers, Sequences, FiniteSets, TLC

VARIABLES
    pc,                   \* position of the running call
    target_os,            \* get_wifi_networks: argument target_os
    timeout,              \* get_wifi_networks: argument timeout
    scans,                \* get_wifi_networks: local scans
    i,                    \* get_wifi_networks: number of passes completed
    all_networks,         \* get_wifi_networks: local all_networks
    connected_unique_id,  \* get_wifi_networks: local connected_unique_id
    networks,             \* get_wifi_networks: records parsed by the last pass
    networks_detailed,    \* get_wifi_networks: records of the iw/iwlist scan of the last pass
    sleeps,               \* number of time.sleep(2) calls made
    runs,                 \* number of subprocess.run calls made
    reports,              \* number of "Error scanning WiFi" lines printed
    failed,               \* number of passes whose scan command (system_profiler, nmcli) raised
    raised,               \* exception that left the call ("" for none)
    stdout,               \* get_wifi_networks: result.stdout of the last pass
    input,                \* argument of the function applied in isolation
    output                \* its result

vars == <<pc, target_os, timeout, scans, i, all_networks, connected_unique_id,
          networks, networks_detailed, sleeps, runs, reports, failed, raised, stdout,
          input, output>>

----------------------------------------------------------------------------
(* Python values *)

PyNone == [none |-> TRUE]
PyInt(n) == [int |-> n]
PyStr(s) == [str |-> s]

Min(a, b) == IF a <= b THEN a ELSE b
Max(a, b) == IF a >= b THEN a ELSE b

\* dict.get(k, d)
Get(d, k, default) == IF k \in DOMAIN d THEN d[k] ELSE default

\* d[k] = v
Put(d, k, v) == [x \in (DOMAIN d) \cup {k} |-> IF x = k THEN v ELSE d[x]]

\* {}
EmptyDict == [x \in {} |-> 0]

----------------------------------------------------------------------------
(* str operations *)

IsSpace(c) == c = " "

IsDigit(c) == c \in {"0", "1", "2", "3", "4", "5", "6", "7", "8", "9"}

DigitVal(c) ==
    CASE c = "0" -> 0 [] c = "1" -> 1 [] c = "2" -> 2 [] c = "3" -> 3
      [] c = "4" -> 4 [] c = "5" -> 5 [] c = "6" -> 6 [] c = "7" -> 7
      [] c = "8" -> 8 [] c = "9" -> 9

DigitChar(d) == <<"0", "1", "2", "3", "4", "5", "6", "7", "8", "9">>[d + 1]

\* s.startswith(p), s.endswith(p), p in s
StartsWith(s, p) == Len(s) >= Len(p) /\ SubSeq(s, 1, Len(p)) = p
EndsWith(s, p) == Len(s) >= Len(p) /\ SubSeq(s, Len(s) - Len(p) + 1, Len(s)) = p
Contains(s, p) == \E k \in 0..(Len(s) - Len(p)) : SubSeq(s, k + 1, k + Len(p)) = p

\* s.find(p) + 1: position of the first occurrence of p in s, 0 when absent
Find(s, p) ==
    LET hits == {k \in 1..(Len(s) - Len(p) + 1) : SubSeq(s, k, k + Len(p) - 1) = p}
    IN  IF hits = {} THEN 0 ELSE CHOOSE k \in hits : \A j \in hits : k <= j

\* s.lstrip(), s.rstrip(), s.strip()
LStrip(s) ==
    LET ns == {k \in 1..Len(s) : ~IsSpace(s[k])}
    IN  IF ns = {} THEN <<>>
        ELSE SubSeq(s, CHOOSE k \in ns : \A j \in ns : k <= j, Len(s))
RStrip(s) ==
    LET ns == {k \in 1..Len(s) : ~IsSpace(s[k])}
    IN  IF ns = {} THEN <<>>
        ELSE SubSeq(s, 1, CHOOSE k \in ns : \A j \in ns : k >= j)
Strip(s) == LStrip(RStrip(s))

\* s.split(sep, 1) for a separator that occurs in s: <<before, after>>
SplitOnce(s, sep) ==
    LET k == Find(s, sep)
    IN  <<SubSeq(s, 1, k - 1), SubSeq(s, k + Len(sep), Len(s))>>

\* s.split(sep)
RECURSIVE Split(_, _)
Split(s, sep) ==
    IF Find(s, sep) = 0 THEN <<s>>
    ELSE <<SplitOnce(s, sep)[1]>> \o Split(SplitOnce(s, sep)[2], sep)

\* s.replace(old, new)
RECURSIVE Replace(_, _, _)
Replace(s, old, new) ==
    IF Find(s, old) = 0 THEN s
    ELSE SplitOnce(s, old)[1] \o new \o Replace(SplitOnce(s, old)[2], old, new)

\* s.isdigit()
IsDigits(s) == Len(s) > 0 /\ \A k \in 1..Len(s) : IsDigit(s[k])

RECURSIVE DigitsVal(_)
DigitsVal(s) ==
    IF s = <<>> THEN 0
    ELSE 10 * DigitsVal(SubSeq(s, 1, Len(s) - 1)) + DigitVal(s[Len(s)])

\* int(s) on a str: surrounding whitespace and one sign are accepted;
\* IntOk is FALSE where int(s) raises ValueError
IntBody(s) ==
    IF Strip(s) # <<>> /\ Strip(s)[1] \in {"-", "+"} THEN Tail(Strip(s)) ELSE Strip(s)
IntOk(s) == IsDigits(IntBody(s))
IntVal(s) ==
    IF Strip(s)[1] = "-" THEN -DigitsVal(IntBody(s)) ELSE DigitsVal(IntBody(s))

\* str(n) for an int n
RECURSIVE NatStr(_)
NatStr(n) == IF n < 10 THEN <<DigitChar(n)>> ELSE NatStr(n \div 10) \o <<DigitChar(n % 10)>>
IntStr(n) == IF n < 0 THEN <<"-">> \o NatStr(-n) ELSE NatStr(n)

\* str(v) as an f-string prints a tagged value
Fmt(v) ==
    IF "int" \in DOMAIN v THEN IntStr(v.int)
    ELSE IF "str" \in DOMAIN v THEN v.str
    ELSE <<"N", "o", "n", "e">>

----------------------------------------------------------------------------
(* Literals of scan.py *)

SENTINEL == -100
UNKNOWN == <<"U","n","k","n","o","w","n">>
DASHES == <<"-","-">>

----------------------------------------------------------------------------
(* channel_to_freq and freq_to_channel *)

\* int(v): of an int, of a str (ValueError if it is no number), of None
\* (TypeError)
IntOf(v) ==
    IF "int" \in DOMAIN v THEN [ok |-> TRUE, val |-> v.int, exc |-> ""]
    ELSE IF "str" \in DOMAIN v
        THEN IF IntOk(v.str) THEN [ok |-> TRUE, val |-> IntVal(v.str), exc |-> ""]
             ELSE [ok |-> FALSE, val |-> 0, exc |-> "ValueError"]
    ELSE [ok |-> FALSE, val |-> 0, exc |-> "TypeError"]

\* the mutant puts channel 14 on the line of the others
FreqOfChannelLinear(ch) ==
    IF 1 <= ch /\ ch <= 14 THEN PyInt(2412 + (ch - 1) * 5)
    ELSE IF (36 <= ch /\ ch <= 64) \/ (100 <= ch /\ ch <= 144) \/ (149 <= ch /\ ch <= 165)
        THEN PyInt(5000 + ch * 5)
    ELSE PyStr(UNKNOWN)

\* the try block of channel_to_freq once ch = int(channel) is there
FreqOfChannel(ch) ==
    IF 1 <= ch /\ ch <= 14
        THEN IF ch = 14 THEN PyInt(2484) ELSE PyInt(2412 + (ch - 1) * 5)
    ELSE IF 36 <= ch /\ ch <= 64 THEN PyInt(5000 + ch * 5)
    ELSE IF 100 <= ch /\ ch <= 144 THEN PyInt(5000 + ch * 5)
    ELSE IF 149 <= ch /\ ch <= 165 THEN PyInt(5000 + ch * 5)
    ELSE PyStr(UNKNOWN)

\* an int, or "Unknown": ValueError and TypeError are caught
channel_to_freq(channel) ==
    IF ~IntOf(channel).ok THEN PyStr(UNKNOWN) ELSE FreqOfChannel(IntOf(channel).val)

\* the mutant counts the 2.4 GHz channels from 2412
ChannelOfFreqFrom2412(freq) ==
    IF 2412 <= freq /\ freq <= 2472 THEN PyStr(IntStr((freq - 2412) \div 5))
    ELSE IF 5180 <= freq /\ freq <= 5825 THEN PyStr(IntStr((freq - 5000) \div 5))
    ELSE PyStr(UNKNOWN)

\* the try block of freq_to_channel once freq = int(freq) is there
ChannelOfFreq(freq) ==
    IF 2412 <= freq /\ freq <= 2472 THEN PyStr(IntStr((freq - 2407) \div 5))
    ELSE IF 5180 <= freq /\ freq <= 5825 THEN PyStr(IntStr((freq - 5000) \div 5))
    ELSE PyStr(UNKNOWN)

\* the mutant catches ValueError alone: a TypeError leaves the function
FreqToChannelCatchingValueError(freq) ==
    IF IntOf(freq).exc = "TypeError" THEN [exc |-> "TypeError"]
    ELSE IF ~IntOf(freq).ok THEN PyStr(UNKNOWN) ELSE ChannelOfFreq(IntOf(freq).val)

\* a str, the channel number or "Unknown": ValueError and TypeError are caught
freq_to_channel(freq) ==
    IF ~IntOf(freq).ok THEN PyStr(UNKNOWN) ELSE ChannelOfFreq(IntOf(freq).val)

----------------------------------------------------------------------------
(* _finalize_network *)

\* the mutant rounds half up instead of cutting
IntOfHalfRounding(x) == (x + 1) \div 2

\* int(x * 0.5) for an int x: the float is cut towards zero
IntOfHalf(x) == IF x >= 0 THEN x \div 2 ELSE -((-x) \div 2)

SignalFromSnr(snr) == Min(100, Max(0, IntOfHalf(snr + 100)))

\* the mutant leaves the fallback percentage unclamped
SignalFromRssiUnclamped(rssi) == 2 * (rssi + 100)

\* min(100, max(0, 2 * (rssi + 100)))
SignalFromRssi(rssi) == Min(100, Max(0, 2 * (rssi + 100)))

\* the mutant returns the record without a bssid
FinalizeWithoutBssid(network_dict) ==
    [ssid |-> Get(network_dict, "ssid", UNKNOWN),
     rssi |-> Get(network_dict, "rssi", SENTINEL),
     signal |-> SignalFromRssi(Get(network_dict, "rssi", SENTINEL)),
     noise |-> PyNone,
     snr |-> PyNone,
     channel |-> Get(network_dict, "channel", DASHES),
     freq |-> Get(network_dict, "freq", PyStr(DASHES)),
     band |-> Get(network_dict, "band", UNKNOWN),
     mode |-> Get(network_dict, "mode", DASHES),
     rate |-> Get(network_dict, "rate", DASHES),
     security |-> Get(network_dict, "security", DASHES)]

_finalize_network(network_dict) ==
    LET rssi == Get(network_dict, "rssi", SENTINEL)
        noise == Get(network_dict, "noise", SENTINEL)
        known == rssi # SENTINEL /\ noise # SENTINEL
    IN  [ssid |-> Get(network_dict, "ssid", UNKNOWN),
         bssid |-> Get(network_dict, "bssid", <<>>),
         rssi |-> rssi,
         signal |-> IF known THEN SignalFromSnr(rssi - noise) ELSE SignalFromRssi(rssi),
         noise |-> IF "noise" \in DOMAIN network_dict THEN PyInt(network_dict["noise"])
                   ELSE PyNone,
         snr |-> IF known THEN PyInt(rssi - noise) ELSE PyNone,
         channel |-> Get(network_dict, "channel", DASHES),
         freq |-> Get(network_dict, "freq", PyStr(DASHES)),
         band |-> Get(network_dict, "band", UNKNOWN),
         mode |-> Get(network_dict, "mode", DASHES),
         rate |-> Get(network_dict, "rate", DASHES),
         security |-> Get(network_dict, "security", DASHES)]

----------------------------------------------------------------------------
(* _parse_macos_networks *)

OTHER_NETWORKS == <<"O","t","h","e","r"," ","L","o","c","a","l"," ","W","i","-","F","i"," ","N","e","t","w","o","r","k","s",":">>
CURRENT_NETWORK == <<"C","u","r","r","e","n","t"," ","N","e","t","w","o","r","k"," ","I","n","f","o","r","m","a","t","i","o","n",":">>
SP12 == <<" "," "," "," "," "," "," "," "," "," "," "," ">>
SP14 == <<" "," "," "," "," "," "," "," "," "," "," "," "," "," ">>
K_CHANNEL == <<"C","h","a","n","n","e","l">>
K_SIGNAL_NOISE == <<"S","i","g","n","a","l"," ","/"," ","N","o","i","s","e">>
K_SECURITY == <<"S","e","c","u","r","i","t","y">>
K_NETWORK_TYPE == <<"N","e","t","w","o","r","k"," ","T","y","p","e">>
K_TRANSMIT_RATE == <<"T","r","a","n","s","m","i","t"," ","R","a","t","e">>
INFRASTRUCTURE == <<"I","n","f","r","a","s","t","r","u","c","t","u","r","e">>
INFRA == <<"I","n","f","r","a">>
DBM == <<" ","d","B","m">>
GHZ == <<"G","H","z">>

\* the run of digits of s that starts at position p
RECURSIVE DigitRun(_, _)
DigitRun(s, p) ==
    IF p <= Len(s) /\ IsDigit(s[p]) THEN <<s[p]>> \o DigitRun(s, p + 1) ELSE <<>>

\* the first position at or after p that holds no whitespace
RECURSIVE SkipSpaces(_, _)
SkipSpaces(s, p) == IF p <= Len(s) /\ IsSpace(s[p]) THEN SkipSpaces(s, p + 1) ELSE p

\* re.search(r"(\d+)\s*\((\d+)GHz", s): whether the pattern matches at p
ChannelMatchAt(s, p) ==
    LET q == SkipSpaces(s, p + Len(DigitRun(s, p)))
        g2 == DigitRun(s, q + 1)
    IN  /\ DigitRun(s, p) # <<>>
        /\ q <= Len(s) /\ s[q] = "("
        /\ g2 # <<>>
        /\ SubSeq(s, q + 1 + Len(g2), Min(Len(s), q + Len(g2) + 3)) = GHZ

\* the match's groups <<group(1), group(2)>>, or <<>> for no match
ChannelMatch(s) ==
    LET hits == {p \in 1..Len(s) : ChannelMatchAt(s, p)}
        p == CHOOSE x \in hits : \A y \in hits : x <= y
        q == SkipSpaces(s, p + Len(DigitRun(s, p)))
    IN  IF hits = {} THEN <<>> ELSE <<DigitRun(s, p), DigitRun(s, q + 1)>>

\* f"{ghz}GHz" if ghz in [2, 5] else "Unknown"
BandOfGhz(ghz) == IF ghz \in {2, 5} THEN IntStr(ghz) \o GHZ ELSE UNKNOWN

\* int(part.strip().replace(" dBm", "")), -100 on ValueError
DbmValue(part) ==
    LET str == Replace(Strip(part), DBM, <<>>)
    IN  IF IntOk(str) THEN IntVal(str) ELSE SENTINEL

\* the effect of one "Key: Value" line on current_network
SetProperty(current_network, line) ==
    LET key == Strip(SplitOnce(line, <<":">>)[1])
        value == Strip(SplitOnce(line, <<":">>)[2])
        m == ChannelMatch(value)
        sig_noise == Split(value, <<"/">>)
        with_rssi == Put(current_network, "rssi", DbmValue(sig_noise[1]))
    IN  IF key = K_CHANNEL THEN
            IF m = <<>> THEN current_network
            ELSE Put(Put(Put(current_network, "channel", m[1]),
                         "freq", channel_to_freq(PyStr(m[1]))),
                     "band", BandOfGhz(IntVal(m[2])))
        ELSE IF key = K_SIGNAL_NOISE THEN
            IF Len(sig_noise) >= 2 THEN Put(with_rssi, "noise", DbmValue(sig_noise[2]))
            ELSE with_rssi
        ELSE IF key = K_SECURITY THEN Put(current_network, "security", value)
        ELSE IF key = K_NETWORK_TYPE THEN
            Put(current_network, "mode",
                IF StartsWith(value, INFRASTRUCTURE) THEN INFRA ELSE value)
        ELSE IF key = K_TRANSMIT_RATE THEN Put(current_network, "rate", value)
        ELSE current_network

\* current_network and current_network.get('ssid')
HasSsid(current_network) ==
    "ssid" \in DOMAIN current_network /\ current_network["ssid"] # <<>>

\* networks.append(_finalize_network(current_network)) when it has an SSID
Emit(nets, current_network) ==
    IF HasSsid(current_network) THEN Append(nets, _finalize_network(current_network))
    ELSE nets

\* the mutant ends the section at a blank line too
IsSectionEndOrBlank(line) ==
    \/ line # <<>> /\ ~StartsWith(line, <<" ">>) /\ Contains(line, <<":">>)
    \/ Strip(line) = <<>>

\* a line that ends the section: it has text, no leading space and a colon
IsSectionEnd(line) == line # <<>> /\ ~StartsWith(line, <<" ">>) /\ Contains(line, <<":">>)

\* a network name line: twelve or thirteen leading spaces and a trailing colon
IsNameLine(line) == StartsWith(line, SP12) /\ ~StartsWith(line, SP14) /\ EndsWith(line, <<":">>)

\* one iteration of the loop over lines; st.done is set by break
MacosLine(st, raw) ==
    LET line == RStrip(raw)
    IN  IF Contains(line, OTHER_NETWORKS) THEN [st EXCEPT !.section = TRUE]
        ELSE IF ~st.section THEN st
        ELSE IF IsSectionEnd(line) THEN [st EXCEPT !.done = TRUE]
        ELSE IF Strip(line) = <<>> THEN
            [st EXCEPT !.nets = Emit(st.nets, st.cur), !.cur = EmptyDict]
        ELSE IF IsNameLine(line) THEN
            [st EXCEPT !.nets = Emit(st.nets, st.cur),
                       !.cur = "ssid" :> SubSeq(Strip(line), 1, Len(Strip(line)) - 1)]
        ELSE IF StartsWith(line, SP14) /\ Contains(line, <<":">>) THEN
            [st EXCEPT !.cur = SetProperty(st.cur, line)]
        ELSE st

RECURSIVE MacosLoop(_, _, _)
MacosLoop(st, lines, k) ==
    IF k > Len(lines) \/ st.done THEN st
    ELSE MacosLoop(MacosLine(st, lines[k]), lines, k + 1)

_parse_macos_networks(lines) ==
    LET st == MacosLoop([section |-> FALSE, done |-> FALSE, cur |-> EmptyDict, nets |-> <<>>],
                        lines, 1)
    IN  Emit(st.nets, st.cur)

----------------------------------------------------------------------------
(* _parse_macos_connected_network, _extract_connected_rate *)

KNOWN_KEYS == {<<"P","H","Y"," ","M","o","d","e">>, <<"C","h","a","n","n","e","l">>, <<"C","o","u","n","t","r","y">>, <<"N","e","t","w","o","r","k">>, <<"S","e","c","u","r","i","t","y">>, <<"S","i","g","n","a","l">>, <<"T","r","a","n","s","m","i","t">>, <<"M","C","S">>}
CHANNEL_COLON == <<"C","h","a","n","n","e","l",":">>
TRANSMIT_RATE_COLON == <<"T","r","a","n","s","m","i","t"," ","R","a","t","e",":">>
MBPS == <<" ","M","b","p","s">>

\* re.search(r"(\d+)", s).group(1), or <<>> for no match
FirstDigits(s) ==
    LET ds == {p \in 1..Len(s) : IsDigit(s[p])}
    IN  IF ds = {} THEN <<>> ELSE DigitRun(s, CHOOSE p \in ds : \A q \in ds : p <= q)

\* a line that names the connected network: it ends with a colon and holds no property key
IsConnectedName(line) == EndsWith(line, <<":">>) /\ \A x \in KNOWN_KEYS : ~Contains(line, x)

\* one iteration of the loop over lines; st.done is set by break and by return
ConnectedLine(st, raw) ==
    LET line == Strip(raw)
        ssid == IF IsConnectedName(line) THEN SubSeq(line, 1, Len(line) - 1) ELSE st.ssid
        digits == FirstDigits(Strip(SplitOnce(line, <<":">>)[2]))
        channel ==
            IF ~IsConnectedName(line) /\ StartsWith(line, CHANNEL_COLON) /\ digits # <<>>
                THEN digits ELSE st.channel
    IN  IF Contains(line, CURRENT_NETWORK) THEN [st EXCEPT !.section = TRUE]
        ELSE IF ~st.section THEN st
        ELSE IF Contains(line, OTHER_NETWORKS) THEN [st EXCEPT !.done = TRUE]
        ELSE IF ssid # <<>> /\ channel # <<>> THEN
            [st EXCEPT !.done = TRUE,
                       !.id = PyStr(ssid \o <<"_">> \o Fmt(channel_to_freq(PyStr(channel))))]
        ELSE [st EXCEPT !.ssid = ssid, !.channel = channel]

RECURSIVE ConnectedLoop(_, _, _)
ConnectedLoop(st, lines, k) ==
    IF k > Len(lines) \/ st.done THEN st
    ELSE ConnectedLoop(ConnectedLine(st, lines[k]), lines, k + 1)

_parse_macos_connected_network(lines) ==
    ConnectedLoop([section |-> FALSE, done |-> FALSE, ssid |-> <<>>, channel |-> <<>>,
                   id |-> PyNone], lines, 1).id

RECURSIVE RateLoop(_, _, _)
RateLoop(section, lines, k) ==
    IF k > Len(lines) THEN PyNone
    ELSE LET line == Strip(lines[k])
         IN  IF Contains(line, CURRENT_NETWORK) THEN RateLoop(TRUE, lines, k + 1)
             ELSE IF ~section THEN RateLoop(section, lines, k + 1)
             ELSE IF Contains(line, OTHER_NETWORKS) THEN PyNone
             ELSE IF StartsWith(line, TRANSMIT_RATE_COLON)
                 THEN PyStr(Strip(SplitOnce(line, <<":">>)[2]))
             ELSE RateLoop(section, lines, k + 1)

_extract_connected_rate(lines) == RateLoop(FALSE, lines, 1)

----------------------------------------------------------------------------
(* _get_linux_nmcli_networks *)

HIDDEN == <<"<","h","i","d","d","e","n",">">>
MHZ == <<" ","M","H","z">>
YES == <<"y","e","s">>
BAND_24 == <<"2",".","4","G","H","z">>
BAND_5 == <<"5","G","H","z">>

\* the position of the first colon of s that no backslash precedes, 0 when none
RECURSIVE UnescapedColon(_, _)
UnescapedColon(s, p) ==
    IF p > Len(s) THEN 0
    ELSE IF s[p] = ":" /\ (p = 1 \/ s[p - 1] # "\\") THEN p
    ELSE UnescapedColon(s, p + 1)

\* the mutant splits at every colon
SplitEveryColon(s) == Split(s, <<":">>)

\* re.split(r'(?<!\\):', s)
RECURSIVE SplitUnescaped(_)
SplitUnescaped(s) ==
    LET k == UnescapedColon(s, 1)
    IN  IF k = 0 THEN <<s>>
        ELSE <<SubSeq(s, 1, k - 1)>> \o SplitUnescaped(SubSeq(s, k + 1, Len(s)))

\* f.replace('\\:', ':').replace('\\', '')
Unescape(f) == Replace(Replace(f, <<"\\", ":">>, <<":">>), <<"\\">>, <<>>)

\* the fields of one line
NmcliFields(line) ==
    LET parts == SplitUnescaped(Strip(line))
    IN  [k \in 1..Len(parts) |-> Unescape(parts[k])]

\* the record of a line of at least nine fields
NmcliRecord(fields) ==
    LET freq == Strip(Replace(fields[6], MHZ, <<>>))
    IN  [ssid |-> IF Strip(fields[2]) = <<>> THEN HIDDEN ELSE Strip(fields[2]),
         bssid |-> Strip(fields[3]),
         rssi |-> SENTINEL,
         signal |-> IF IsDigits(fields[4]) THEN DigitsVal(fields[4]) ELSE 0,
         channel |-> Strip(fields[5]),
         freq |-> PyStr(freq),
         band |-> IF freq # <<>> /\ StartsWith(freq, <<"2">>) THEN BAND_24 ELSE BAND_5,
         mode |-> Strip(fields[7]),
         rate |-> Strip(fields[8]),
         security |-> Strip(fields[9]),
         active |-> (Strip(fields[1]) = YES)]

\* the loop over the lines of the nmcli output
RECURSIVE ParseNmcli(_, _)
ParseNmcli(lines, k) ==
    IF k > Len(lines) THEN <<>>
    ELSE IF Len(NmcliFields(lines[k])) >= 9
        THEN <<NmcliRecord(NmcliFields(lines[k]))>> \o ParseNmcli(lines, k + 1)
    ELSE ParseNmcli(lines, k + 1)

\* what the call makes of the commands' outcomes: env.root is os.geteuid() == 0,
\* env.nmcli the outcome of nmcli, env.sudo_nmcli that of the retry with sudo
_get_linux_nmcli_networks(env) ==
    LET retry == ~env.root /\ "error" \in DOMAIN env.nmcli
                   /\ env.nmcli.error = "CalledProcessError"
        last == IF retry THEN env.sudo_nmcli ELSE env.nmcli
    IN  [nets |-> IF "error" \in DOMAIN last THEN <<>> ELSE ParseNmcli(last.stdout, 1),
         runs |-> IF retry THEN 2 ELSE 1,
         failed |-> "error" \in DOMAIN last]

----------------------------------------------------------------------------
(* _get_linux_iw_networks *)

BSS_SP == <<"B","S","S"," ">>
FREQ_COLON == <<"f","r","e","q",":">>
SIGNAL_COLON == <<"s","i","g","n","a","l",":">>
SSID_COLON == <<"S","S","I","D",":">>
CAPABILITY_COLON == <<"c","a","p","a","b","i","l","i","t","y",":">>
PRIVACY == <<"P","r","i","v","a","c","y">>
WPA_WPA2 == <<"W","P","A","/","W","P","A","2">>
NONE_STR == <<"N","o","n","e">>
DBM_UNIT == <<"d","B","m">>

UPPER == <<"A","B","C","D","E","F","G","H","I","J","K","L","M","N","O","P","Q","R","S","T","U","V","W","X","Y","Z">>
LOWER == <<"a","b","c","d","e","f","g","h","i","j","k","l","m","n","o","p","q","r","s","t","u","v","w","x","y","z">>

\* s.lower()
LowerChar(c) ==
    IF \E k \in 1..Len(UPPER) : UPPER[k] = c
        THEN LOWER[CHOOSE k \in 1..Len(UPPER) : UPPER[k] = c] ELSE c
Lower(s) == [k \in 1..Len(s) |-> LowerChar(s[k])]

\* s.split(): the words between runs of whitespace
RECURSIVE Words(_)
Words(s) ==
    LET body == LStrip(s)
        sp == Find(body, <<" ">>)
    IN  IF body = <<>> THEN <<>>
        ELSE IF sp = 0 THEN <<body>>
        ELSE <<SubSeq(body, 1, sp - 1)>> \o Words(SubSeq(body, sp, Len(body)))

\* a match of (-?\d+(?:\.\d+)?)\s*dBm at position p: the whole part of the
\* number with its sign, or <<>> for no match
NumberDbmAt(s, p) ==
    LET neg == p <= Len(s) /\ s[p] = "-"
        d == IF neg THEN p + 1 ELSE p
        whole == DigitRun(s, d)
        e == d + Len(whole)
        frac == IF e <= Len(s) /\ s[e] = "." THEN DigitRun(s, e + 1) ELSE <<>>
        after(x) == SubSeq(s, SkipSpaces(s, x), Min(Len(s), SkipSpaces(s, x) + 2)) = DBM_UNIT
    IN  IF whole = <<>> THEN <<>>
        ELSE IF (frac # <<>> /\ after(e + 1 + Len(frac))) \/ after(e)
            THEN (IF neg THEN <<"-">> ELSE <<>>) \o whole
        ELSE <<>>

\* re.search(r"signal:\s*(-?\d+(?:\.\d+)?)\s*dBm", s), then int(float(group(1)))
SignalMatch(s) ==
    LET hits == {p \in 1..Len(s) :
                   /\ SubSeq(s, p, Min(Len(s), p + Len(SIGNAL_COLON) - 1)) = SIGNAL_COLON
                   /\ NumberDbmAt(s, SkipSpaces(s, p + Len(SIGNAL_COLON))) # <<>>}
        p == CHOOSE x \in hits : \A y \in hits : x <= y
    IN  IF hits = {} THEN <<>> ELSE NumberDbmAt(s, SkipSpaces(s, p + Len(SIGNAL_COLON)))

\* the effect of one line on the record being built
IwProperty(current_net, line) ==
    LET ssid == Strip(SplitOnce(line, <<":">>)[2])
    IN  IF StartsWith(line, FREQ_COLON)
            THEN Put(current_net, "freq", Strip(Split(line, <<":">>)[2]))
        ELSE IF StartsWith(line, SIGNAL_COLON) THEN
            IF SignalMatch(line) # <<>>
                THEN Put(current_net, "rssi", IntVal(SignalMatch(line)))
            ELSE current_net
        ELSE IF StartsWith(line, SSID_COLON) THEN
            IF ssid # <<>> /\ ssid # DASHES THEN Put(current_net, "ssid", ssid)
            ELSE current_net
        ELSE IF Contains(Lower(line), CAPABILITY_COLON) THEN
            Put(current_net, "security", IF Contains(line, PRIVACY) THEN WPA_WPA2 ELSE NONE_STR)
        ELSE current_net

\* networks.append(current_net) when it has an SSID
Keep(nets, current_net) == IF HasSsid(current_net) THEN Append(nets, current_net) ELSE nets

\* the loop over the lines of the iw output
RECURSIVE IwLoop(_, _, _)
IwLoop(st, lines, k) ==
    IF k > Len(lines) THEN Keep(st.nets, st.cur)
    ELSE LET line == Strip(lines[k])
             parts == Words(line)
         IN  IF StartsWith(line, BSS_SP) THEN
                 IwLoop([nets |-> Keep(st.nets, st.cur),
                         cur |-> IF Len(parts) > 1
                                     THEN "bssid" :> Split(parts[2], <<"(">>)[1]
                                 ELSE EmptyDict],
                        lines, k + 1)
             ELSE IwLoop([st EXCEPT !.cur = IwProperty(st.cur, line)], lines, k + 1)

\* env.iw is the outcome of iw dev <interface> scan, env.sudo_iw that of the
\* retry with sudo
_get_linux_iw_networks(env) ==
    LET retry == "error" \in DOMAIN env.iw /\ env.iw.error = "CalledProcessError"
        last == IF retry THEN env.sudo_iw ELSE env.iw
    IN  [nets |-> IF "error" \in DOMAIN last THEN <<>>
                  ELSE IwLoop([nets |-> <<>>, cur |-> EmptyDict], last.stdout, 1),
         runs |-> IF retry THEN 2 ELSE 1]

----------------------------------------------------------------------------
(* _get_linux_iwlist_networks *)

IEEE_80211 == <<"I","E","E","E"," ","8","0","2",".","1","1">>
ESSID_COLON == <<"E","S","S","I","D",":">>
CELL_SP == <<"C","e","l","l"," ">>
ADDRESS_COLON == <<"A","d","d","r","e","s","s",":">>
FREQUENCY_COLON == <<"F","r","e","q","u","e","n","c","y",":">>
QUALITY_EQ == <<"Q","u","a","l","i","t","y","=">>
SIGNAL_LEVEL_EQ == <<"S","i","g","n","a","l"," ","l","e","v","e","l","=">>
NOISE_LEVEL_EQ == <<"N","o","i","s","e"," ","l","e","v","e","l","=">>
MODE_COLON == <<"M","o","d","e",":">>
MASTER == <<"M","a","s","t","e","r">>
ENCRYPTION_KEY_COLON == <<"E","n","c","r","y","p","t","i","o","n"," ","k","e","y",":">>
OFF == <<"o","f","f">>

\* interface = line.split()[0] of the first line that names a wireless
\* interface, <<>> when there is none
RECURSIVE FindInterface(_, _)
FindInterface(lines, k) ==
    IF k > Len(lines) THEN <<>>
    ELSE IF Contains(lines[k], IEEE_80211) \/ Contains(lines[k], ESSID_COLON)
        THEN Words(lines[k])[1]
    ELSE FindInterface(lines, k + 1)

\* float(s) for a decimal numeral: FloatOk is FALSE where float(s) raises
\* ValueError; Milli(s) is int(float(s) * 1000) for at most three decimals
FloatOk(s) ==
    LET body == IF s # <<>> /\ s[1] \in {"-", "+"} THEN Tail(s) ELSE s
        dot == Find(body, <<".">>)
        whole == IF dot = 0 THEN body ELSE SubSeq(body, 1, dot - 1)
        frac == IF dot = 0 THEN <<>> ELSE SubSeq(body, dot + 1, Len(body))
    IN  /\ whole \o frac # <<>>
        /\ \A k \in 1..Len(whole) : IsDigit(whole[k])
        /\ \A k \in 1..Len(frac) : IsDigit(frac[k])
Milli(s) ==
    LET body == IF s[1] \in {"-", "+"} THEN Tail(s) ELSE s
        dot == Find(body, <<".">>)
        whole == IF dot = 0 THEN body ELSE SubSeq(body, 1, dot - 1)
        frac == IF dot = 0 THEN <<>> ELSE SubSeq(body, dot + 1, Len(body))
        three == SubSeq(frac \o <<"0", "0", "0">>, 1, 3)
        v == DigitsVal(whole) * 1000 + DigitsVal(three)
    IN  IF s[1] = "-" THEN -v ELSE v

\* the Cell line's words: Address: and Frequency: each take the word after
\* them; st.error is set where float() raises ValueError
RECURSIVE CellWords(_, _, _)
CellWords(st, parts, k) ==
    IF k > Len(parts) \/ st.error THEN st
    ELSE IF parts[k] = ADDRESS_COLON /\ k + 1 <= Len(parts)
        THEN CellWords([st EXCEPT !.cur = Put(st.cur, "bssid", parts[k + 1])], parts, k + 1)
    ELSE IF parts[k] = FREQUENCY_COLON /\ k + 1 <= Len(parts) /\ EndsWith(parts[k + 1], GHZ)
        THEN LET num == SubSeq(parts[k + 1], 1, Len(parts[k + 1]) - 3)
             IN  IF FloatOk(num)
                     THEN CellWords([st EXCEPT !.cur = Put(st.cur, "freq", IntStr(Milli(num)))],
                                    parts, k + 1)
                 ELSE [st EXCEPT !.error = TRUE]
    ELSE CellWords(st, parts, k + 1)

\* re.search(key + r"(-?\d+(?:\.\d+)?)\s*dBm", s): the whole part of the number
LevelDbm(s, key) ==
    LET hits == {p \in 1..Len(s) :
                   /\ SubSeq(s, p, Min(Len(s), p + Len(key) - 1)) = key
                   /\ NumberDbmAt(s, p + Len(key)) # <<>>}
        p == CHOOSE x \in hits : \A y \in hits : x <= y
    IN  IF hits = {} THEN <<>> ELSE NumberDbmAt(s, p + Len(key))

\* re.search(r"Signal level=(-?\d+)", s).group(1)
LevelPlain(s, key) ==
    LET num(p) == (IF p <= Len(s) /\ s[p] = "-" THEN <<"-">> ELSE <<>>)
                    \o DigitRun(s, IF p <= Len(s) /\ s[p] = "-" THEN p + 1 ELSE p)
        hits == {p \in 1..Len(s) :
                   /\ SubSeq(s, p, Min(Len(s), p + Len(key) - 1)) = key
                   /\ num(p + Len(key)) \notin {<<>>, <<"-">>}}
        p == CHOOSE x \in hits : \A y \in hits : x <= y
    IN  IF hits = {} THEN <<>> ELSE num(p + Len(key))

\* the Quality / Signal level / Noise level line
IwlistLevels(current_net, line) ==
    LET sig == IF LevelDbm(line, SIGNAL_LEVEL_EQ) # <<>> THEN LevelDbm(line, SIGNAL_LEVEL_EQ)
               ELSE LevelPlain(line, SIGNAL_LEVEL_EQ)
        with_rssi == IF Contains(line, SIGNAL_LEVEL_EQ) /\ sig # <<>>
                         THEN Put(current_net, "rssi", IntVal(sig)) ELSE current_net
        noise == LevelDbm(line, NOISE_LEVEL_EQ)
        with_noise == Put(with_rssi, "noise", IntVal(noise))
    IN  IF ~Contains(line, NOISE_LEVEL_EQ) \/ noise = <<>> THEN with_rssi
        ELSE IF "rssi" \in DOMAIN with_rssi /\ with_rssi["rssi"] \notin {0, SENTINEL}
            THEN Put(with_noise, "snr", with_rssi["rssi"] - IntVal(noise))
        ELSE with_noise

\* s.strip('"')
RECURSIVE StripQuotes(_)
StripQuotes(s) ==
    IF s # <<>> /\ s[1] = "\"" THEN StripQuotes(Tail(s))
    ELSE IF s # <<>> /\ s[Len(s)] = "\"" THEN StripQuotes(SubSeq(s, 1, Len(s) - 1))
    ELSE s

\* the effect of one line that opens no cell
IwlistProperty(current_net, line) ==
    LET value == Strip(SplitOnce(line, <<":">>)[2])
    IN  IF StartsWith(line, CHANNEL_COLON)
            THEN Put(current_net, "channel", Strip(Split(line, <<":">>)[2]))
        ELSE IF StartsWith(line, QUALITY_EQ) \/ Contains(line, SIGNAL_LEVEL_EQ)
            THEN IwlistLevels(current_net, line)
        ELSE IF StartsWith(line, ESSID_COLON) THEN
            IF StripQuotes(value) # <<>> /\ StripQuotes(value) # HIDDEN
                THEN Put(current_net, "ssid", StripQuotes(value))
            ELSE current_net
        ELSE IF StartsWith(line, MODE_COLON)
            THEN Put(current_net, "mode", IF value = MASTER THEN INFRA ELSE value)
        ELSE IF Contains(line, ENCRYPTION_KEY_COLON)
            THEN Put(current_net, "security",
                     IF Contains(Lower(line), OFF) THEN NONE_STR ELSE WPA_WPA2)
        ELSE current_net

\* the loop over the lines of the iwlist output; a ValueError ends it and
\* the networks appended so far are returned
RECURSIVE IwlistLoop(_, _, _)
IwlistLoop(st, lines, k) ==
    IF st.error THEN st.nets
    ELSE IF k > Len(lines) THEN Keep(st.nets, st.cur)
    ELSE LET line == Strip(lines[k])
         IN  IF StartsWith(line, CELL_SP) THEN
                 IwlistLoop(CellWords([nets |-> Keep(st.nets, st.cur), cur |-> EmptyDict,
                                       error |-> FALSE], Words(line), 1),
                            lines, k + 1)
             ELSE IwlistLoop([st EXCEPT !.cur = IwlistProperty(st.cur, line)], lines, k + 1)

\* env.iwconfig, env.iw, env.sudo_iw, env.iwlist, env.sudo_iwlist are the
\* outcomes of the commands, in the order the function may run them
_get_linux_iwlist_networks(env) ==
    LET iw == _get_linux_iw_networks(env)
        retry == "error" \in DOMAIN env.iwlist /\ env.iwlist.error = "CalledProcessError"
        last == IF retry THEN env.sudo_iwlist ELSE env.iwlist
    IN  IF "error" \in DOMAIN env.iwconfig THEN [nets |-> <<>>, runs |-> 1]
        ELSE IF FindInterface(env.iwconfig.stdout, 1) = <<>> THEN [nets |-> <<>>, runs |-> 1]
        ELSE IF iw.nets # <<>> THEN [nets |-> iw.nets, runs |-> 1 + iw.runs]
        ELSE [nets |-> IF "error" \in DOMAIN last THEN <<>>
                       ELSE IwlistLoop([nets |-> <<>>, cur |-> EmptyDict, error |-> FALSE],
                                       last.stdout, 1),
              runs |-> 1 + iw.runs + (IF retry THEN 2 ELSE 1)]

----------------------------------------------------------------------------
(* get_wifi_networks *)

CURRENT == <<"c","u","r","r","e","n","t">>

\* the mutant joins nothing to the SSID
UniqueIdBare(net) == net.ssid

\* f"{net['ssid']}_{net['freq']}"
UniqueId(net) == net.ssid \o <<"_">> \o Fmt(net.freq)

\* the mutant keeps the record already stored under the key
StoreFirst(map, key, net) == IF key \in DOMAIN map THEN map ELSE Put(map, key, net)

\* the mutant starts the map over at every record it stores
StoreAlone(map, key, net) == Put(EmptyDict, key, net)

\* all_networks[unique_id] = net
Store(map, key, net) == Put(map, key, net)

\* the loop over the parsed networks
RECURSIVE Upsert(_, _, _)
Upsert(map, nets, k) ==
    IF k > Len(nets) THEN map
    ELSE Upsert(Store(map, UniqueId(nets[k]), nets[k]), nets, k + 1)

\* the rate of the connected network, set from the current-network section
WithConnectedRate(map, id, lines) ==
    LET rate_info == _extract_connected_rate(lines)
    IN  IF id # PyNone /\ id.str \in DOMAIN map /\ rate_info # PyNone /\ rate_info.str # <<>>
            THEN [map EXCEPT ![id.str].rate = rate_info.str \o MBPS]
        ELSE map

\* max(1, timeout // 2)
ScanCount(t) == Max(1, t \div 2)

\* if i < scans - 1: time.sleep(2)
SleepAfter(idx, n) == idx < n - 1

\* the mutant answers an unsupported selector with the empty map
DispatchSilently(os) == IF os \in {"macos", "linux"} THEN "loop" ELSE "returned"

\* the branch get_wifi_networks takes on target_os
Dispatch(os) == IF os \in {"macos", "linux"} THEN "loop" ELSE "raised"

\* the exception of an unsupported selector
UnsupportedError(os) == IF os = "windows" THEN "NotImplementedError" ELSE "ValueError"

\* the exceptions the loop body catches, reports and survives
CAUGHT == {"CalledProcessError", "FileNotFoundError", "PermissionError", "OSError"}

\* the mutant records the connected identity and files no record
StoredNothing(map, conn, idx, lines, nets) ==
    [map |-> map, conn |-> _parse_macos_connected_network(lines),
     caught |-> FALSE, networks |-> nets]

\* the rest of the try block, after the text is parsed
Stored(map, conn, idx, lines, nets) ==
    IF idx = 0
        THEN [map |-> WithConnectedRate(Upsert(map, nets, 1),
                                        _parse_macos_connected_network(lines), lines),
              conn |-> _parse_macos_connected_network(lines),
              caught |-> FALSE, networks |-> nets]
    ELSE [map |-> Upsert(map, nets, 1), conn |-> conn, caught |-> FALSE, networks |-> nets]

\* the try block of one macOS pass, given what subprocess.run did:
\* raised an exception (out.error) or returned (out.stdout)
MacosTry(map, conn, idx, out) ==
    IF "error" \in DOMAIN out
        THEN [map |-> map, conn |-> conn, caught |-> TRUE, networks |-> <<>>]
    ELSE Stored(map, conn, idx, out.stdout, _parse_macos_networks(out.stdout))

\* the first record of networks_detailed with nmcli_net's SSID and a frequency
\* less than 10 from its own: idx is its index (0 for none), exc the exception
\* that iwlist_net['freq'] or int() raised
RECURSIVE FindMatch(_, _, _)
FindMatch(nmcli_net, detailed, j) ==
    IF j > Len(detailed) THEN [idx |-> 0, exc |-> ""]
    ELSE LET iwlist_net == detailed[j]
         IN  IF iwlist_net["ssid"] # nmcli_net["ssid"]
                 THEN FindMatch(nmcli_net, detailed, j + 1)
             ELSE IF "freq" \notin DOMAIN iwlist_net THEN [idx |-> 0, exc |-> "KeyError"]
             ELSE IF ~IntOk(iwlist_net["freq"]) \/ ~IntOk(nmcli_net["freq"].str)
                 THEN [idx |-> 0, exc |-> "ValueError"]
             ELSE IF IntVal(iwlist_net["freq"]) - IntVal(nmcli_net["freq"].str) \in -9..9
                 THEN [idx |-> j, exc |-> ""]
             ELSE FindMatch(nmcli_net, detailed, j + 1)

\* combined_net: the nmcli record with the match's rssi, noise and snr
Combine(nmcli_net, iwlist_match) ==
    LET with_rssi == IF Get(iwlist_match, "rssi", 0) # SENTINEL
                         THEN Put(nmcli_net, "rssi", iwlist_match["rssi"]) ELSE nmcli_net
        with_noise == IF "noise" \in DOMAIN iwlist_match
                          THEN Put(with_rssi, "noise", PyInt(iwlist_match["noise"]))
                      ELSE with_rssi
    IN  IF "snr" \in DOMAIN iwlist_match
            THEN Put(with_noise, "snr", PyInt(iwlist_match["snr"])) ELSE with_noise

\* the merge loop over networks_nmcli; st.exc names the exception that ended it
RECURSIVE MergeLoop(_, _, _, _)
MergeLoop(st, networks_nmcli, detailed, k) ==
    IF k > Len(networks_nmcli) \/ st.exc # "" THEN st
    ELSE LET nmcli_net == networks_nmcli[k]
             unique_id == UniqueId(nmcli_net)
             m == FindMatch(nmcli_net, detailed, 1)
             iwlist_match == detailed[m.idx]
         IN  IF m.exc # "" THEN [st EXCEPT !.exc = m.exc]
             ELSE IF m.idx # 0 /\ "rssi" \notin DOMAIN iwlist_match
                 THEN [st EXCEPT !.exc = "KeyError"]
             ELSE MergeLoop(
                    [st EXCEPT
                       !.map = Store(st.map, unique_id,
                                     IF m.idx = 0 THEN nmcli_net
                                     ELSE Combine(nmcli_net, iwlist_match)),
                       !.conn = IF nmcli_net["active"] THEN PyStr(unique_id) ELSE st.conn],
                    networks_nmcli, detailed, k + 1)

\* the merge of one Linux pass over what the two scans returned
Merged(map, conn, detailed, nmcli) ==
    MergeLoop([map |-> map, conn |-> conn, exc |-> "",
               networks |-> nmcli.nets, detailed |-> detailed.nets, failed |-> nmcli.failed,
               runs |-> detailed.runs + nmcli.runs],
              nmcli.nets, detailed.nets, 1)

\* the try block of one Linux pass, given what the commands did
LinuxTry(map, conn, env) ==
    Merged(map, conn, _get_linux_iwlist_networks(env), _get_linux_nmcli_networks(env))

----------------------------------------------------------------------------
(* monitor.py: monitor_ssid up to the sampling loop *)

\* the keys of the dict in the order of their insertion: one per network at
\* its first sighting, then 'current'
RECURSIVE KeyOrder(_, _, _)
KeyOrder(acc, nets, k) ==
    IF k > Len(nets) THEN Append(acc, CURRENT)
    ELSE KeyOrder(IF \E j \in 1..Len(acc) : acc[j] = UniqueId(nets[k]) THEN acc
                  ELSE Append(acc, UniqueId(nets[k])),
                  nets, k + 1)

\* [k for k in networks_dict.keys() if k != 'current']
RECURSIVE WithoutCurrent(_)
WithoutCurrent(keys) ==
    IF keys = <<>> THEN <<>>
    ELSE IF Head(keys) = CURRENT THEN WithoutCurrent(Tail(keys))
    ELSE <<Head(keys)>> \o WithoutCurrent(Tail(keys))

\* the try block of a selection: int(choice) - 1 indexes the list as Python
\* does, a negative index counting from the end; ValueError and IndexError
\* are caught
Choose(ids, choice) ==
    IF ~IntOk(choice) THEN [ssid_id |-> PyNone, says |-> "Invalid selection.", raised |-> ""]
    ELSE IF IntVal(choice) - 1 \in 0..(Len(ids) - 1)
        THEN [ssid_id |-> PyStr(ids[IntVal(choice)]), says |-> "Monitoring SSID", raised |-> ""]
    ELSE IF IntVal(choice) - 1 \in (-Len(ids))..(-1)
        THEN [ssid_id |-> PyStr(ids[Len(ids) + IntVal(choice)]), says |-> "Monitoring SSID",
              raised |-> ""]
    ELSE [ssid_id |-> PyNone, says |-> "Invalid selection.", raised |-> ""]

\* net['ssid'] raises TypeError when net is None or a str, as the value of
\* 'current' is
SsidRaises(networks_dict, keys) ==
    \E k \in 1..Len(keys) : "ssid" \notin DOMAIN networks_dict[keys[k]]

\* [uid for uid, net in networks_dict.items() if net['ssid'] == ssid and uid != 'current']
RECURSIVE Matching(_, _, _)
Matching(networks_dict, keys, ssid) ==
    IF keys = <<>> THEN <<>>
    ELSE IF networks_dict[Head(keys)]["ssid"] = ssid /\ Head(keys) # CURRENT
        THEN <<Head(keys)>> \o Matching(networks_dict, Tail(keys), ssid)
    ELSE Matching(networks_dict, Tail(keys), ssid)

\* the branch for an SSID given by name, once the matches are there
Named(matches, choice) ==
    IF matches = <<>> THEN [ssid_id |-> PyNone, says |-> "not found!", raised |-> ""]
    ELSE IF Len(matches) > 1 THEN Choose(matches, choice)
    ELSE [ssid_id |-> PyStr(matches[1]), says |-> "Monitoring SSID", raised |-> ""]

\* monitor_ssid from the scan to the line before the sampling loop
monitor_ssid(ssid, networks_dict, keys, choice) ==
    IF ssid = <<>> THEN Choose(WithoutCurrent(keys), choice)
    ELSE IF SsidRaises(networks_dict, keys)
        THEN [ssid_id |-> PyNone, says |-> "", raised |-> "TypeError"]
    ELSE Named(Matching(networks_dict, keys, ssid), choice)

----------------------------------------------------------------------------
(* Inputs *)

\* readings range over -100 - DbmPad .. DbmPad
DbmPad == 4
Dbm == (SENTINEL - DbmPad)..DbmPad

\* partial records as the parsers hand them to _finalize_network:
\* rssi and noise each present or not
FinalizeInputs ==
    {[k \in {"ssid"} \cup r \cup n |->
         IF k = "ssid" THEN <<"N">> ELSE IF k = "rssi" THEN rv ELSE nv] :
       r \in {{}, {"rssi"}}, n \in {{}, {"noise"}}, rv \in Dbm, nv \in Dbm}

\* arguments of the converters: ints around the channels and around the
\* two frequency ranges, strs, None
ChannelPad == 5
FreqPad == 12
ConverterInts ==
    (-ChannelPad..(165 + ChannelPad))
        \cup ((2412 - FreqPad)..(2484 + FreqPad)) \cup ((5180 - FreqPad)..(5825 + FreqPad))
ConverterStrs ==
    {<<"a","b","c">>, <<>>, <<"6">>, <<" ","3","6"," ">>, <<"-","5">>, <<"1","4">>,
     <<"2","4","3","7">>, <<"5",".","5">>, <<"U","n","k","n","o","w","n">>}
ConverterInputs ==
    {PyInt(n) : n \in ConverterInts} \cup {PyStr(x) : x \in ConverterStrs} \cup {PyNone}

\* arguments of monitor_ssid and answers typed at its prompt
MonitorSsids ==
    {<<>>, <<"M","y","H","o","m","e","W","i","F","i">>, <<"O","f","f","i","c","e","5","G">>,
     <<"N","o","p","e">>}
Choices ==
    {<<"0">>, <<"1">>, <<"2">>, <<"3">>, <<"-","1">>, <<"-","2">>, <<"-","3">>,
     <<"a","b","c">>, <<>>}

\* rows of the monitor table
MaxCount == 2

\* lines of system_profiler SPAirPortDataType output
L_OTHER == <<" "," "," "," "," "," "," "," "," "," ","O","t","h","e","r"," ","L","o","c","a","l"," ","W","i","-","F","i"," ","N","e","t","w","o","r","k","s",":">>
L_HOME == <<" "," "," "," "," "," "," "," "," "," "," "," ","M","y","H","o","m","e","W","i","F","i",":">>
L_OFFICE == <<" "," "," "," "," "," "," "," "," "," "," "," ","O","f","f","i","c","e","5","G",":">>
L_SIG48 == <<" "," "," "," "," "," "," "," "," "," "," "," "," "," ","S","i","g","n","a","l"," ","/"," ","N","o","i","s","e",":"," ","-","4","8"," ","d","B","m"," ","/"," ","-","9","4"," ","d","B","m">>
L_SIG60 == <<" "," "," "," "," "," "," "," "," "," "," "," "," "," ","S","i","g","n","a","l"," ","/"," ","N","o","i","s","e",":"," ","-","6","0"," ","d","B","m"," ","/"," ","-","9","2"," ","d","B","m">>
L_BLANK == <<>>
L_TOP == <<"B","l","u","e","t","o","o","t","h",":">>
L_IFACE == <<" "," "," "," "," "," "," "," ","a","w","d","l","0",":">>
MacosLines == {L_OTHER, L_HOME, L_OFFICE, L_SIG48, L_SIG60, L_BLANK, L_TOP, L_IFACE}

\* texts of at most MaxLines lines
MaxLines == 5

\* lines of the current-network section: a network whose name holds the word
\* Network, and the lines around it
L_HOMENETWORK == <<" "," "," "," "," "," "," "," "," "," "," "," ","H","o","m","e","N","e","t","w","o","r","k",":">>
L_CURINFO == <<" "," "," "," "," "," "," "," "," "," ","C","u","r","r","e","n","t"," ","N","e","t","w","o","r","k"," ","I","n","f","o","r","m","a","t","i","o","n",":">>
L_CHAN6 == <<" "," "," "," "," "," "," "," "," "," "," "," "," "," ","C","h","a","n","n","e","l",":"," ","6"," ","(","2","G","H","z",","," ","2","0","M","H","z",")">>
L_CHAN149 == <<" "," "," "," "," "," "," "," "," "," "," "," "," "," ","C","h","a","n","n","e","l",":"," ","1","4","9"," ","(","5","G","H","z",","," ","8","0","M","H","z",")">>
ConnectedLines == {L_CURINFO, L_HOME, L_HOMENETWORK, L_CHAN6, L_CHAN149, L_OTHER, L_SIG48}

\* whole outputs of system_profiler SPAirPortDataType
L_RATE == <<" "," "," "," "," "," "," "," "," "," "," "," "," "," ","T","r","a","n","s","m","i","t"," ","R","a","t","e",":"," ","1","4","4">>
L_WIFI == <<"W","i","-","F","i",":">>

\* the connected network is listed among the others too
T_LISTED ==
    <<L_WIFI, L_CURINFO, L_HOME, L_CHAN6, L_RATE,
      L_OTHER, L_HOME, L_CHAN6, L_SIG48, L_OFFICE, L_CHAN149, L_SIG60, L_IFACE, L_TOP>>
\* the connected network is not among the others
T_UNLISTED ==
    <<L_WIFI, L_CURINFO, L_HOME, L_CHAN6, L_RATE, L_OTHER, L_OFFICE, L_CHAN149, L_SIG60>>
\* the same two networks, the readings swapped, connected to the other one
T_ROAMED ==
    <<L_WIFI, L_CURINFO, L_OFFICE, L_CHAN149,
      L_OTHER, L_HOME, L_CHAN6, L_SIG60, L_BLANK, L_OFFICE, L_CHAN149, L_SIG48>>
\* one network, not connected
T_SINGLE == <<L_OTHER, L_OFFICE, L_CHAN149, L_SIG60>>
\* Wi-Fi is off: no section at all
T_OFF == <<L_WIFI, L_TOP>>

\* the sample output of tests/test_cli.py
T_CLI ==
    <<<<>>,
      <<" "," "," "," "," "," "," "," ","O","t","h","e","r"," ","L","o","c","a","l"," ","W","i","-","F","i"," ","N","e","t","w","o","r","k","s",":">>,
      <<" "," "," "," "," "," "," "," "," "," "," "," ","M","y","H","o","m","e","W","i","F","i",":">>,
      <<" "," "," "," "," "," "," "," "," "," "," "," "," "," "," "," ","P","H","Y"," ","M","o","d","e",":"," ","8","0","2",".","1","1","a","x">>,
      <<" "," "," "," "," "," "," "," "," "," "," "," "," "," "," "," ","C","h","a","n","n","e","l",":"," ","6"," ","(","2","G","H","z",","," ","2","0","M","H","z",")">>,
      <<" "," "," "," "," "," "," "," "," "," "," "," "," "," "," "," ","N","e","t","w","o","r","k"," ","T","y","p","e",":"," ","I","n","f","r","a","s","t","r","u","c","t","u","r","e">>,
      <<" "," "," "," "," "," "," "," "," "," "," "," "," "," "," "," ","S","e","c","u","r","i","t","y",":"," ","W","P","A","2"," ","P","e","r","s","o","n","a","l">>,
      <<" "," "," "," "," "," "," "," "," "," "," "," "," "," "," "," ","S","i","g","n","a","l"," ","/"," ","N","o","i","s","e",":"," ","-","4","8"," ","d","B","m"," ","/"," ","-","9","4"," ","d","B","m">>,
      <<" "," "," "," "," "," "," "," "," "," "," "," ","O","f","f","i","c","e","5","G",":">>,
      <<" "," "," "," "," "," "," "," "," "," "," "," "," "," "," "," ","P","H","Y"," ","M","o","d","e",":"," ","8","0","2",".","1","1","a","c">>,
      <<" "," "," "," "," "," "," "," "," "," "," "," "," "," "," "," ","C","h","a","n","n","e","l",":"," ","1","4","9"," ","(","5","G","H","z",","," ","8","0","M","H","z",")">>,
      <<" "," "," "," "," "," "," "," "," "," "," "," "," "," "," "," ","N","e","t","w","o","r","k"," ","T","y","p","e",":"," ","I","n","f","r","a","s","t","r","u","c","t","u","r","e">>,
      <<" "," "," "," "," "," "," "," "," "," "," "," "," "," "," "," ","S","e","c","u","r","i","t","y",":"," ","W","P","A","2"," ","P","e","r","s","o","n","a","l">>,
      <<" "," "," "," "," "," "," "," "," "," "," "," "," "," "," "," ","S","i","g","n","a","l"," ","/"," ","N","o","i","s","e",":"," ","-","6","0"," ","d","B","m"," ","/"," ","-","9","2"," ","d","B","m">>,
      <<" "," "," "," ">>>>

\* one network sighted twice in one text
T_TWICE == <<L_OTHER, L_HOME, L_CHAN6, L_SIG48, L_BLANK, L_HOME, L_CHAN6, L_SIG60>>

\* a network listed by its name alone, before one with its lines
T_BARE == <<L_OTHER, L_HOME, L_OFFICE, L_CHAN149, L_SIG60>>

MacosTexts == {T_LISTED, T_UNLISTED, T_ROAMED, T_SINGLE, T_OFF, T_CLI, T_TWICE, T_BARE}

\* what subprocess.run(["system_profiler", ...], check=True) can do
MacosOutcomes == {[stdout |-> x] : x \in MacosTexts} \cup {[error |-> e] : e \in CAUGHT}

\* budgets range over -NegTimeouts .. MaxTimeout
NegTimeouts == 3
MaxTimeout == 4
Timeouts == (-NegTimeouts)..MaxTimeout

Selectors == {"macos", "linux", "windows", "freebsd"}

\* lines of nmcli -t -f ACTIVE,SSID,BSSID,SIGNAL,CHAN,FREQ,MODE,RATE,SECURITY
N_HOME_ACTIVE ==
    <<"y","e","s",":","H","o","m","e","N","e","t",":","A","A","\\",":","B","B","\\",":","C","C","\\",":","D","D","\\",":","E","E","\\",":","F","F",":","8","0",":","6",":","2","4","3","7",":","I","n","f","r","a",":","1","3","0"," ","M","b","i","t","/","s",":","W","P","A","2">>
N_HOME_IDLE ==
    <<"n","o",":","H","o","m","e","N","e","t",":","A","A","\\",":","B","B","\\",":","C","C","\\",":","D","D","\\",":","E","E","\\",":","0","0",":","6","0",":","6",":","2","4","3","7"," ","M","H","z",":","I","n","f","r","a",":","5","4"," ","M","b","i","t","/","s",":","W","P","A","2">>
N_OFFICE ==
    <<"n","o",":","O","f","f","i","c","e",":","1","1","\\",":","2","2","\\",":","3","3","\\",":","4","4","\\",":","5","5","\\",":","6","6",":","5","5",":","1","4","9",":","5","7","4","5"," ","M","H","z",":","I","n","f","r","a",":","5","4","0"," ","M","b","i","t","/","s",":","W","P","A","3">>
N_HIDDEN ==
    <<"n","o",":",":","7","7","\\",":","8","8","\\",":","9","9","\\",":","A","A","\\",":","B","B","\\",":","C","C",":","3","0",":","1",":","2","4","1","2"," ","M","H","z",":","I","n","f","r","a",":","5","4"," ","M","b","i","t","/","s",":">>
N_NOFREQ ==
    <<"n","o",":","H","o","m","e","N","e","t",":","A","A","\\",":","B","B","\\",":","C","C","\\",":","D","D","\\",":","E","E","\\",":","F","F",":","4","0",":","6",":",":","I","n","f","r","a",":","5","4"," ","M","b","i","t","/","s",":","W","P","A","2">>
N_SHORT == <<"n","o",":","B","r","o","k","e","n",":","7","7">>

NmcliTexts ==
    {<<N_HOME_ACTIVE, N_OFFICE>>, <<N_OFFICE, N_HIDDEN, N_SHORT>>, <<N_HOME_IDLE>>,
     <<N_NOFREQ>>, <<>>}

\* lines of iw dev wlan0 scan
IW_BSS_HOME == <<"B","S","S"," ","a","a",":","b","b",":","c","c",":","d","d",":","e","e",":","f","f","(","o","n"," ","w","l","a","n","0",")"," ","-","-"," ","a","s","s","o","c","i","a","t","e","d">>
IW_BSS_OFFICE == <<"B","S","S"," ","1","1",":","2","2",":","3","3",":","4","4",":","5","5",":","6","6","(","o","n"," ","w","l","a","n","0",")">>
IW_FREQ_2437 == <<" "," "," "," ","f","r","e","q",":"," ","2","4","3","7">>
IW_FREQ_5750 == <<" "," "," "," ","f","r","e","q",":"," ","5","7","5","0">>
IW_SIGNAL_42 == <<" "," "," "," ","s","i","g","n","a","l",":"," ","-","4","2",".","0","0"," ","d","B","m">>
IW_SIGNAL_60 == <<" "," "," "," ","s","i","g","n","a","l",":"," ","-","6","0",".","5","0"," ","d","B","m">>
IW_SSID_HOME == <<" "," "," "," ","S","S","I","D",":"," ","H","o","m","e","N","e","t">>
IW_SSID_OFFICE == <<" "," "," "," ","S","S","I","D",":"," ","O","f","f","i","c","e">>
IW_CAPABILITY == <<" "," "," "," ","c","a","p","a","b","i","l","i","t","y",":"," ","E","S","S"," ","P","r","i","v","a","c","y"," ","(","0","x","0","4","1","1",")">>

IW_FULL ==
    <<IW_BSS_HOME, IW_FREQ_2437, IW_SIGNAL_42, IW_SSID_HOME, IW_CAPABILITY,
      IW_BSS_OFFICE, IW_FREQ_5750, IW_SIGNAL_60, IW_SSID_OFFICE>>

IwTexts ==
    {IW_FULL,
     <<IW_BSS_HOME, IW_SIGNAL_42, IW_SSID_HOME>>,
     <<IW_BSS_HOME, IW_FREQ_2437, IW_SSID_HOME>>,
     <<IW_BSS_OFFICE, IW_FREQ_5750, IW_SIGNAL_60, IW_SSID_OFFICE>>}

\* lines of iwlist wlan0 scan
IWL_CELL == <<" "," "," "," "," "," "," "," "," "," ","C","e","l","l"," ","0","1"," ","-"," ","A","d","d","r","e","s","s",":"," ","A","A",":","B","B",":","C","C",":","D","D",":","E","E",":","F","F">>
IWL_CELL_FREQ == <<" "," "," "," "," "," "," "," "," "," ","C","e","l","l"," ","0","2"," ","-"," ","A","d","d","r","e","s","s",":"," ","1","1",":","2","2",":","3","3",":","4","4",":","5","5",":","6","6"," ","F","r","e","q","u","e","n","c","y",":"," ","5",".","7","4","5","G","H","z">>
IWL_CHANNEL == <<" "," "," "," "," "," "," "," "," "," "," "," "," "," "," "," "," "," "," "," ","C","h","a","n","n","e","l",":","6">>
IWL_FREQUENCY == <<" "," "," "," "," "," "," "," "," "," "," "," "," "," "," "," "," "," "," "," ","F","r","e","q","u","e","n","c","y",":","2",".","4","3","7"," ","G","H","z"," ","(","C","h","a","n","n","e","l"," ","6",")">>
IWL_QUALITY == <<" "," "," "," "," "," "," "," "," "," "," "," "," "," "," "," "," "," "," "," ","Q","u","a","l","i","t","y","=","7","0","/","7","0"," "," ","S","i","g","n","a","l"," ","l","e","v","e","l","=","-","4","0"," ","d","B","m"," "," ","N","o","i","s","e"," ","l","e","v","e","l","=","-","8","9"," ","d","B","m">>
IWL_ENCRYPTION == <<" "," "," "," "," "," "," "," "," "," "," "," "," "," "," "," "," "," "," "," ","E","n","c","r","y","p","t","i","o","n"," ","k","e","y",":","o","n">>
IWL_ESSID_HOME == <<" "," "," "," "," "," "," "," "," "," "," "," "," "," "," "," "," "," "," "," ","E","S","S","I","D",":","\"","H","o","m","e","N","e","t","\"">>
IWL_ESSID_OFFICE == <<" "," "," "," "," "," "," "," "," "," "," "," "," "," "," "," "," "," "," "," ","E","S","S","I","D",":","\"","O","f","f","i","c","e","\"">>
IWL_MODE == <<" "," "," "," "," "," "," "," "," "," "," "," "," "," "," "," "," "," "," "," ","M","o","d","e",":","M","a","s","t","e","r">>

IWL_HOME ==
    <<IWL_CELL, IWL_CHANNEL, IWL_FREQUENCY, IWL_QUALITY, IWL_ENCRYPTION, IWL_ESSID_HOME,
      IWL_MODE>>
IWL_OFFICE == <<IWL_CELL_FREQ, IWL_QUALITY, IWL_ESSID_OFFICE>>

\* outputs of iwconfig
IWCONFIG_WLAN ==
    <<<<"l","o"," "," "," "," "," "," "," "," ","n","o"," ","w","i","r","e","l","e","s","s"," ","e","x","t","e","n","s","i","o","n","s",".">>,
      <<"w","l","a","n","0"," "," "," "," "," ","I","E","E","E"," ","8","0","2",".","1","1"," "," ","E","S","S","I","D",":","\"","H","o","m","e","N","e","t","\"">>>>
IWCONFIG_NONE == <<<<"l","o"," "," "," "," "," "," "," "," ","n","o"," ","w","i","r","e","l","e","s","s"," ","e","x","t","e","n","s","i","o","n","s",".">>>>

\* the fields nmcli can print in each place of a line, colons escaped
F_YES == <<"y","e","s">>
F_YES_SP == <<"y","e","s"," ">>
F_NO == <<"n","o">>
F_HOME == <<"H","o","m","e">>
F_BACKSLASH == <<"a","\\","b">>
F_BSSID == <<"A","A","\\",":","B","B","\\",":","C","C","\\",":","D","D","\\",":","E","E","\\",":","F","F">>
F_80 == <<"8","0">>
F_NA == <<"n","/","a">>
F_6 == <<"6">>
F_2437_MHZ == <<"2","4","3","7"," ","M","H","z">>
F_5745 == <<"5","7","4","5">>
F_INFRA == <<"I","n","f","r","a">>
F_RATE == <<"1","3","0"," ","M","b","i","t","/","s">>
F_WPA2 == <<"W","P","A","2">>
F_EXTRA == <<"x">>

Segments(k) ==
    CASE k = 1 -> {F_YES, F_YES_SP, F_NO}
      [] k = 2 -> {F_HOME, <<>>, F_BACKSLASH}
      [] k = 3 -> {F_BSSID}
      [] k = 4 -> {F_80, F_NA}
      [] k = 5 -> {F_6}
      [] k = 6 -> {F_2437_MHZ, F_5745, <<>>}
      [] k = 7 -> {F_INFRA}
      [] k = 8 -> {F_RATE}
      [] k = 9 -> {F_WPA2, <<>>}
      [] OTHER -> {F_EXTRA}

\* lines of at most MaxFields fields
MaxFields == 10

\* the line of the fields from the k-th on, colons between them
RECURSIVE JoinFields(_, _)
JoinFields(fields, k) ==
    IF k > Len(fields) THEN <<>>
    ELSE IF k = Len(fields) THEN fields[k]
    ELSE fields[k] \o <<":">> \o JoinFields(fields, k + 1)

Ok(text) == [stdout |-> text]
Err(e) == [error |-> e]

\* what iwconfig, iw and iwlist can do in one pass
DetailOutcomes ==
    LET none == Err("FileNotFoundError")
        cpe == Err("CalledProcessError")
        env(c, a, b, x, y) ==
            [iwconfig |-> c, iw |-> a, sudo_iw |-> b, iwlist |-> x, sudo_iwlist |-> y]
    IN  {env(none, none, none, none, none),
         env(Ok(IWCONFIG_NONE), none, none, none, none),
         env(Ok(IWCONFIG_WLAN), cpe, cpe, cpe, cpe),
         env(Ok(IWCONFIG_WLAN), Err("PermissionError"), none, none, none),
         env(Ok(IWCONFIG_WLAN), cpe, Ok(IW_FULL), none, none),
         env(Ok(IWCONFIG_WLAN), none, none, Ok(IWL_HOME), none),
         env(Ok(IWCONFIG_WLAN), cpe, cpe, cpe, Ok(IWL_OFFICE))}
        \cup {env(Ok(IWCONFIG_WLAN), Ok(x), none, none, none) : x \in IwTexts}

\* what os.geteuid and nmcli can do in one pass
NmcliOutcomes ==
    LET none == Err("FileNotFoundError")
        cpe == Err("CalledProcessError")
        env(r, a, b) == [root |-> r, nmcli |-> a, sudo_nmcli |-> b]
    IN  {env(FALSE, none, none), env(FALSE, cpe, cpe), env(TRUE, cpe, none),
         env(TRUE, Ok(<<N_HOME_ACTIVE, N_OFFICE>>), none),
         env(FALSE, cpe, Ok(<<N_HOME_IDLE>>))}
        \cup {env(FALSE, Ok(x), none) : x \in NmcliTexts}

LinuxOutcomes ==
    {[k \in DOMAIN d \cup DOMAIN n |-> IF k \in DOMAIN d THEN d[k] ELSE n[k]] :
       d \in DetailOutcomes, n \in NmcliOutcomes}

----------------------------------------------------------------------------
(* The functions applied in isolation *)

NoCall ==
    /\ target_os = "" /\ timeout = 0 /\ scans = 0 /\ i = 0
    /\ all_networks = EmptyDict /\ connected_unique_id = PyNone /\ networks = <<>>
    /\ networks_detailed = <<>> /\ sleeps = 0 /\ runs = 0 /\ reports = 0 /\ failed = 0 /\ raised = "" /\ stdout = PyNone

callVars == <<target_os, timeout, scans, i, all_networks, connected_unique_id,
              networks, networks_detailed, sleeps, runs, reports, failed, raised, stdout>>

InitFinalize == pc = "arg" /\ input \in FinalizeInputs /\ output = <<>> /\ NoCall

ApplyFinalize ==
    /\ pc = "arg" /\ pc' = "result"
    /\ output' = _finalize_network(input)
    /\ UNCHANGED <<input, callVars>>

SpecFinalize == InitFinalize /\ [][ApplyFinalize]_vars

InitConvert == pc = "arg" /\ input \in ConverterInputs /\ output = <<>> /\ NoCall

ApplyChannelToFreq ==
    /\ pc = "arg" /\ pc' = "freq"
    /\ output' = channel_to_freq(input)
    /\ UNCHANGED <<input, callVars>>

ApplyFreqToChannel ==
    /\ pc = "arg" /\ pc' = "channel"
    /\ output' = freq_to_channel(input)
    /\ UNCHANGED <<input, callVars>>

\* freq_to_channel(channel_to_freq(input))
ApplyFreqToChannelBack ==
    /\ pc = "freq" /\ pc' = "back"
    /\ output' = freq_to_channel(output)
    /\ UNCHANGED <<input, callVars>>

SpecConvert ==
    InitConvert /\ [][ApplyChannelToFreq \/ ApplyFreqToChannel \/ ApplyFreqToChannelBack]_vars

\* monitor_ssid(ssid, count=c): the scan prints input.text, the user types
\* input.choice when asked
InitMonitor ==
    /\ pc = "arg" /\ output = <<>> /\ NoCall
    /\ input \in {[ssid |-> a, text |-> t, choice |-> c, count |-> n] :
                     a \in MonitorSsids, t \in {T_OFF, T_SINGLE, T_LISTED, T_ROAMED},
                     c \in Choices, n \in 1..MaxCount}

\* the scan of get_wifi_networks(timeout) and the selection
MonitorSelect ==
    /\ pc = "arg"
    /\ \E r \in {MacosTry(EmptyDict, PyNone, 0, [stdout |-> input.text])} :
         \E sel \in {monitor_ssid(input.ssid, Put(r.map, CURRENT, r.conn),
                                  KeyOrder(<<>>, r.networks, 1), input.choice)} :
             /\ output' = [ssid_id |-> sel.ssid_id, says |-> sel.says,
                           raised |-> sel.raised, rows |-> 0]
             /\ pc' = IF sel.raised # "" THEN "raised"
                      ELSE IF sel.ssid_id = PyNone THEN "returned" ELSE "sampling"
    /\ UNCHANGED <<input, callVars>>

\* one turn of the sampling loop: a row is printed, whatever the scan gives
MonitorSample ==
    /\ pc = "sampling" /\ output.rows < input.count
    /\ output' = [output EXCEPT !.rows = @ + 1]
    /\ UNCHANGED <<pc, input, callVars>>

MonitorEnd ==
    /\ pc = "sampling" /\ output.rows = input.count
    /\ pc' = "returned"
    /\ UNCHANGED <<input, output, callVars>>

SpecMonitor == InitMonitor /\ [][MonitorSelect \/ MonitorSample \/ MonitorEnd]_vars

InitParseMacos == pc = "arg" /\ input = <<>> /\ output = <<>> /\ NoCall

\* the command prints one more line
PrintLine ==
    /\ pc = "arg" /\ Len(input) < MaxLines
    /\ \E l \in MacosLines : input' = Append(input, l)
    /\ UNCHANGED <<pc, output, callVars>>

ApplyParseMacos ==
    /\ pc = "arg" /\ pc' = "result"
    /\ output' = _parse_macos_networks(input)
    /\ UNCHANGED <<input, callVars>>

SpecParseMacos == InitParseMacos /\ [][PrintLine \/ ApplyParseMacos]_vars

\* the command prints one more line of the current-network section
PrintConnectedLine ==
    /\ pc = "arg" /\ Len(input) < MaxLines
    /\ \E l \in ConnectedLines : input' = Append(input, l)
    /\ UNCHANGED <<pc, output, callVars>>

ApplyParseConnected ==
    /\ pc = "arg" /\ pc' = "result"
    /\ output' = _parse_macos_connected_network(input)
    /\ UNCHANGED <<input, callVars>>

SpecParseConnected == InitParseMacos /\ [][PrintConnectedLine \/ ApplyParseConnected]_vars

----------------------------------------------------------------------------
(* One call of get_wifi_networks *)

Init ==
    /\ pc = "idle" /\ NoCall
    /\ input = <<>> /\ output = <<>>

\* get_wifi_networks(timeout, target_os) up to the branch on target_os
Call ==
    /\ pc = "idle"
    /\ \E t \in Timeouts, os \in Selectors :
         /\ timeout' = t /\ target_os' = os
         /\ scans' = ScanCount(t)
         /\ pc' = Dispatch(os)
         /\ raised' = IF Dispatch(os) = "raised" THEN UnsupportedError(os) ELSE ""
         /\ all_networks' =
              IF Dispatch(os) = "returned" THEN Put(EmptyDict, CURRENT, PyNone) ELSE EmptyDict
    /\ connected_unique_id' = PyNone
    /\ UNCHANGED <<i, networks, networks_detailed, sleeps, runs, reports, failed, stdout,
                   input, output>>

\* one iteration of the macOS loop: subprocess.run, the try block, the sleep
MacosPass ==
    /\ pc = "loop" /\ target_os = "macos" /\ i < scans
    /\ \E out \in MacosOutcomes :
         \E r \in {MacosTry(all_networks, connected_unique_id, i, out)} :
             /\ all_networks' = r.map
             /\ connected_unique_id' = r.conn
             /\ reports' = IF r.caught THEN reports + 1 ELSE reports
             /\ failed' = IF r.caught THEN failed + 1 ELSE failed
             /\ networks' = IF r.caught THEN networks ELSE r.networks
             /\ stdout' = IF r.caught THEN stdout ELSE PyStr(out.stdout)
    /\ runs' = runs + 1
    /\ sleeps' = IF SleepAfter(i, scans) THEN sleeps + 1 ELSE sleeps
    /\ i' = i + 1
    /\ UNCHANGED <<pc, target_os, timeout, scans, raised, networks_detailed, input, output>>

\* all_networks['current'] = connected_unique_id; return all_networks
Return ==
    /\ pc = "loop" /\ i = scans
    /\ all_networks' = Put(all_networks, CURRENT, connected_unique_id)
    /\ pc' = "returned"
    /\ UNCHANGED <<target_os, timeout, scans, i, connected_unique_id, networks,
                   networks_detailed, sleeps,
                   runs, reports, failed, raised, stdout, input, output>>

\* scan() after get_wifi_networks returned: the "Found n networks." line, the
\* line of the connected network, and print_table, which prints
\* "No WiFi networks found." for a map without networks; errors counts the
\* "Error scanning WiFi" lines the passes printed before; returned is the
\* list scan() returns, each record filed under the key it was read from
ScanReport ==
    /\ pc = "returned" /\ pc' = "reported"
    /\ output' = [errors |-> reports,
                  found |-> Cardinality(DOMAIN all_networks) - 1,
                  current |-> all_networks[CURRENT],
                  no_networks |-> DOMAIN all_networks \subseteq {CURRENT},
                  returned |-> [uid \in {k \in DOMAIN all_networks : k # CURRENT} |->
                                  all_networks[uid]]]
    /\ UNCHANGED <<input, callVars>>

\* one iteration of the Linux loop: the scans, the merge, the sleep; an
\* exception the loop does not catch leaves the call
LinuxStep(env) ==
    /\ pc = "loop" /\ target_os = "linux" /\ i < scans
    /\ \E r \in {LinuxTry(all_networks, connected_unique_id, env)} :
         /\ all_networks' = r.map
         /\ connected_unique_id' = r.conn
         /\ raised' = r.exc
         /\ pc' = IF r.exc = "" THEN "loop" ELSE "raised"
         /\ sleeps' = IF r.exc = "" /\ SleepAfter(i, scans) THEN sleeps + 1 ELSE sleeps
         /\ i' = IF r.exc = "" THEN i + 1 ELSE i
         /\ networks' = r.networks
         /\ networks_detailed' = r.detailed
         /\ failed' = IF r.failed THEN failed + 1 ELSE failed
         /\ runs' = runs + r.runs
    /\ UNCHANGED <<target_os, timeout, scans, reports, stdout>>

LinuxPass == \E env \in LinuxOutcomes : LinuxStep(env) /\ UNCHANGED <<input, output>>

Next == Call \/ MacosPass \/ LinuxPass \/ Return \/ ScanReport

Spec == Init /\ [][Next]_vars

----------------------------------------------------------------------------
(* One Linux pass on a line of nmcli output, typed field by field *)

InitNmcli ==
    /\ pc = "loop" /\ target_os = "linux" /\ timeout = 2 /\ scans = ScanCount(2) /\ i = 0
    /\ all_networks = EmptyDict /\ connected_unique_id = PyNone /\ networks = <<>>
    /\ networks_detailed = <<>> /\ sleeps = 0 /\ runs = 0 /\ reports = 0 /\ failed = 0 /\ raised = "" /\ stdout = PyNone
    /\ input = <<>> /\ output = <<>>

\* nmcli prints one more field of the line
PrintField ==
    /\ pc = "loop" /\ i = 0 /\ Len(input) < MaxFields
    /\ \E f \in Segments(Len(input) + 1) : input' = Append(input, f)
    /\ UNCHANGED <<pc, output, callVars>>

\* the pass, with no wireless interface for iw and iwlist to scan
NmcliPass ==
    /\ LinuxStep([iwconfig |-> Err("FileNotFoundError"), iw |-> Err("FileNotFoundError"),
                  sudo_iw |-> Err("FileNotFoundError"), iwlist |-> Err("FileNotFoundError"),
                  sudo_iwlist |-> Err("FileNotFoundError"), root |-> FALSE,
                  nmcli |-> Ok(<<JoinFields(input, 1)>>), sudo_nmcli |-> Err("FileNotFoundError")])
    /\ UNCHANGED <<input, output>>

SpecNmcli == InitNmcli /\ [][PrintField \/ NmcliPass \/ Return]_vars

----------------------------------------------------------------------------
(* Properties of _finalize_network, under SpecFinalize *)

Known(d, k) == k \in DOMAIN d /\ d[k] # SENTINEL

BothKnown == Known(input, "rssi") /\ Known(input, "noise")

\* round(x * 0.5) for an int x, as Python rounds: a tie goes to the even side
RoundOfHalf(x) ==
    IF x % 2 = 0 THEN x \div 2
    ELSE IF (x \div 2) % 2 = 0 THEN x \div 2 ELSE x \div 2 + 1

\* s is x * 0.5 cut towards zero and then clamped to 0..100
IsClampedCutHalf(s, x) ==
    IF x < 2 THEN s = 0
    ELSE IF x >= 200 THEN s = 100
    ELSE 2 * s <= x /\ x < 2 * s + 2

\* C10 as amended: when rssi and noise are both known (present and not
\* -100), snr = rssi - noise and the signal percent is (snr + 100) * 0.5 cut
\* towards zero, not rounded, and clamped to 0..100; when either is unknown
\* the snr is None.
C10_SnrAndSignalTruncated ==
    pc = "result" =>
        IF BothKnown
            THEN /\ output.snr = PyInt(input["rssi"] - input["noise"])
                 /\ IsClampedCutHalf(output.signal, input["rssi"] - input["noise"] + 100)
            ELSE output.snr = PyNone

\* rssi -47 and noise -94: snr 47, snr + 100 odd, signal percent 73
C10_Witness ==
    /\ pc = "result" /\ BothKnown
    /\ input["rssi"] = -47 /\ input["noise"] = -94
    /\ output.snr = PyInt(47) /\ output.signal = 73

\* C10 as stated: the signal percent is round((snr + 100) * 0.5) clamped to
\* 0..100, also when snr + 100 is odd.
C10_SignalRounded ==
    pc = "result" /\ BothKnown =>
        /\ output.snr = PyInt(input["rssi"] - input["noise"])
        /\ output.signal =
             Min(100, Max(0, RoundOfHalf(input["rssi"] - input["noise"] + 100)))

\* clamp(0, 100, 2 * (rssi + 100)), case by case
ClampedDouble(rssi) ==
    IF rssi <= -100 THEN 0 ELSE IF rssi >= -50 THEN 100 ELSE 2 * rssi + 200

\* C11 as amended: when rssi is known and noise is unknown (absent or -100)
\* the signal percent is clamp(0, 100, 2 * (rssi + 100)); when rssi is
\* unknown (absent or -100) the record still has a signal percent, the
\* number 0.
C11_FallbackSignal ==
    pc = "result" =>
        /\ "signal" \in DOMAIN output /\ output.signal \in 0..100
        /\ Known(input, "rssi") /\ ~Known(input, "noise")
              => output.signal = ClampedDouble(input["rssi"])
        /\ ~Known(input, "rssi") => output.signal = 0

\* rssi -70 without a noise reading: signal percent 60
C11_Witness ==
    /\ pc = "result" /\ "noise" \notin DOMAIN input
    /\ Known(input, "rssi") /\ input["rssi"] = -70 /\ output.signal = 60

\* C11 as stated: when neither rssi nor noise is known the record has no
\* signal percent.
C11_SignalAbsent ==
    pc = "result" =>
        /\ Known(input, "rssi") /\ ~Known(input, "noise")
              => output.signal = ClampedDouble(input["rssi"])
        /\ ~Known(input, "rssi") /\ ~Known(input, "noise")
              => "signal" \notin DOMAIN output

----------------------------------------------------------------------------
(* Properties of _parse_macos_networks, under SpecParseMacos *)

Indent(l) == Len(l) - Len(LStrip(l))

Markers == {k \in 1..Len(input) : Contains(input[k], OTHER_NETWORKS)}

Least(S) == CHOOSE k \in S : \A j \in S : k <= j

\* a line with text, no indentation and a colon
TopLevelHeader(l) == l # <<>> /\ l[1] # " " /\ \E k \in 1..Len(l) : l[k] = ":"

\* the section runs from the line after the first marker up to the line
\* before the next top-level header, or to the end
SectionStop ==
    LET h == {k \in (Least(Markers) + 1)..Len(input) :
                 k \notin Markers /\ TopLevelHeader(input[k])}
    IN  IF h = {} THEN Len(input) + 1 ELSE Least(h)

Section == IF Markers = {} THEN {} ELSE ((Least(Markers) + 1)..(SectionStop - 1)) \ Markers

\* the name lines of the section: indented by twelve or thirteen, ending in a colon
NameLines == {k \in Section : Indent(input[k]) \in {12, 13} /\ input[k][Len(input[k])] = ":"}

NameOf(l) == SubSeq(l, Indent(l) + 1, Len(l) - 1)

\* the lines of the block a name line opens: up to the next blank line or name line
BlockOf(k) ==
    {j \in Section : j > k /\ \A m \in (k + 1)..j : input[m] # <<>> /\ m \notin NameLines}

\* the reading of the last Signal / Noise line of the block, -100 without one
RssiOfBlock(k) ==
    LET sig == {j \in BlockOf(k) : input[j] \in {L_SIG48, L_SIG60}}
        last == CHOOSE j \in sig : \A m \in sig : m <= j
    IN  IF sig = {} THEN SENTINEL ELSE IF input[last] = L_SIG48 THEN -48 ELSE -60

\* the n-th member of a set of line numbers
Nth(S, n) == CHOOSE k \in S : Cardinality({j \in S : j < k}) = n - 1

\* C8: only lines after the marker and before the next top-level header
\* produce records, and a text without the marker gives none; in the section
\* every name line opens one record, a blank line or the next name line
\* closes it without ending the section, and the records come out one per
\* name line, in input order, each with the ssid of its name line and the
\* rssi of the Signal / Noise line of its own block.
C8_OneRecordPerNamedBlock ==
    pc = "result" =>
        /\ Len(output) = Cardinality(NameLines)
        /\ \A n \in 1..Len(output) :
             /\ output[n].ssid = NameOf(input[Nth(NameLines, n)])
             /\ output[n].rssi = RssiOfBlock(Nth(NameLines, n))

\* MyHomeWiFi -48 then Office5G -60
C8_Witness ==
    /\ pc = "result"
    /\ input = <<L_OTHER, L_HOME, L_SIG48, L_OFFICE, L_SIG60>>
    /\ Len(output) = 2
    /\ output[1].ssid = <<"M","y","H","o","m","e","W","i","F","i">> /\ output[1].rssi = -48
    /\ output[2].ssid = <<"O","f","f","i","c","e","5","G">> /\ output[2].rssi = -60

----------------------------------------------------------------------------
(* Properties of _parse_macos_connected_network, under SpecParseConnected *)

\* the property keys of a system_profiler network block
PROPERTY_KEYS ==
    {<<"P","H","Y"," ","M","o","d","e">>, <<"C","h","a","n","n","e","l">>,
     <<"C","o","u","n","t","r","y"," ","C","o","d","e">>,
     <<"N","e","t","w","o","r","k"," ","T","y","p","e">>,
     <<"S","e","c","u","r","i","t","y">>, <<"S","i","g","n","a","l"," ","/"," ","N","o","i","s","e">>,
     <<"T","r","a","n","s","m","i","t"," ","R","a","t","e">>, <<"M","C","S"," ","I","n","d","e","x">>}

\* the lines of the current-network section: after the first marker, before
\* the marker of the other networks
CurrentMarkers == {k \in 1..Len(input) : Contains(input[k], CURRENT_NETWORK)}
CurrentSection ==
    {k \in 1..Len(input) :
        /\ \E m \in CurrentMarkers : m < k
        /\ \A m \in 1..k : Contains(input[m], OTHER_NETWORKS) => \A c \in CurrentMarkers : m < c}

\* the colon-terminated lines of the section that are no property key
ConnectedNames ==
    {k \in CurrentSection :
        /\ EndsWith(Strip(input[k]), <<":">>) /\ Len(Strip(input[k])) > 1
        /\ ~Contains(input[k], CURRENT_NETWORK)
        /\ SubSeq(Strip(input[k]), 1, Len(Strip(input[k])) - 1) \notin PROPERTY_KEYS}

\* the Channel lines of the section that carry a number
ConnectedChannels ==
    {k \in CurrentSection :
        StartsWith(Strip(input[k]), CHANNEL_COLON) /\ FirstDigits(Strip(input[k])) # <<>>}

\* the identity the section gives: its first name and the frequency of its channel
ConnectedIdentity ==
    IF ConnectedNames = {} \/ ConnectedChannels = {} THEN PyNone
    ELSE PyStr(SubSeq(Strip(input[Least(ConnectedNames)]), 1,
                      Len(Strip(input[Least(ConnectedNames)])) - 1)
               \o <<"_">>
               \o Fmt(channel_to_freq(PyStr(FirstDigits(Strip(input[Least(ConnectedChannels)]))))))

\* C14: _parse_macos_connected_network returns ssid + "_" +
\* channel_to_freq(channel) for the first colon-terminated line of the
\* current-network section that is no property key and the number of the
\* section's Channel line, whatever the text of the SSID, and None when the
\* marker, the SSID or the channel is missing (for a section with no more
\* than one Channel line, as the claim speaks of the section's Channel line).
C14_ConnectedIdentity ==
    pc = "result" /\ Cardinality(ConnectedChannels) <= 1 => output = ConnectedIdentity

----------------------------------------------------------------------------
(* Properties of get_wifi_networks, under Spec *)

H_MyHomeWiFi_2437 == <<"M","y","H","o","m","e","W","i","F","i","_","2","4","3","7">>
H_Office5G_5745 == <<"O","f","f","i","c","e","5","G","_","5","7","4","5">>

\* the sightings of a pass whose key is k, and the last of them
Sightings(nets, k) == {n \in 1..Len(nets) : UniqueId(nets[n]) = k}
LastSighting(nets, k) == nets[CHOOSE n \in Sightings(nets, k) : \A m \in Sightings(nets, k) : m <= n]
Keys(nets) == {UniqueId(nets[n]) : n \in 1..Len(nets)}

\* two records agree on every field outside the set skip
AgreeBut(a, b, skip) ==
    /\ DOMAIN a \ skip = DOMAIN b \ skip
    /\ \A f \in DOMAIN a \ skip : a[f] = b[f]

\* a pass that ran to its end without a failure
MacosPassDone == target_os = "macos" /\ i' = i + 1 /\ reports' = reports
LinuxPassDone == target_os = "linux" /\ i' = i + 1

\* what a completed pass leaves in the map: the sighted keys are added, each
\* holding the record of its last sighting alone (on macOS all of it, but for
\* the rate of the connected network that the first pass reads from the
\* current-network section; on Linux the nmcli record, but for the readings
\* taken from the iw or iwlist record), and every other key is untouched
LastWriteWins ==
    /\ DOMAIN all_networks' = DOMAIN all_networks \cup Keys(networks')
    /\ \A k \in DOMAIN all_networks' \ Keys(networks') : all_networks'[k] = all_networks[k]
    /\ \A k \in Keys(networks') :
         LET new == all_networks'[k]
             last == LastSighting(networks', k)
         IN  /\ UniqueId(new) = k
             /\ IF target_os = "macos"
                 THEN \/ new = last
                      \/ /\ i = 0 /\ connected_unique_id' = PyStr(k)
                         /\ AgreeBut(new, last, {"rate"})
                ELSE /\ AgreeBut(new, last, {"rssi", "noise", "snr"})
                     /\ "rssi" \in DOMAIN new

\* C1: the map holds one record per identity key ssid_freq, stored under the
\* key of its own ssid and freq, and a pass overwrites the record of every key
\* it sights with the record of the last sighting, field for field, without
\* keeping any field of the record stored before.
C1_LastWriteWins == [][MacosPassDone \/ LinuxPassDone => LastWriteWins]_vars

\* two macOS passes done, the second on the text with the readings swapped:
\* one record per network, holding the readings of the second pass
C1_Witness ==
    /\ target_os = "macos" /\ pc = "loop" /\ i = 2 /\ reports = 0
    /\ stdout = PyStr(T_ROAMED)
    /\ connected_unique_id = PyStr(H_MyHomeWiFi_2437)
    /\ DOMAIN all_networks = {H_MyHomeWiFi_2437, H_Office5G_5745}
    /\ all_networks[H_Office5G_5745].rssi = -48
    /\ all_networks[H_MyHomeWiFi_2437].rssi = -60

Supported == target_os \in {"macos", "linux"}

\* a pass that met a failure: one the macOS loop reported, or one an
\* exception left on Linux
PassFails ==
    /\ pc = "loop" /\ i < scans
    /\ \/ target_os = "macos" /\ reports' # reports
       \/ target_os = "linux" /\ raised' # ""

\* C2: on macOS and on Linux a pass that fails is reported and skipped: the
\* map stays as it was, the loop goes on to the next pass, and the call is
\* not aborted.
C2_FailedPassSkipped ==
    [][PassFails => /\ all_networks' = all_networks
                    /\ reports' = reports + 1
                    /\ pc' = "loop" /\ i' = i + 1]_vars

\* C3: whatever text the commands print, no parser and no merge step raises:
\* a call with a supported selector never ends in an exception.
C3_NeverRaises == Supported => pc # "raised"

\* C4: a call runs exactly max(1, timeout // 2) passes and sleeps after every
\* pass but the last, whether the passes succeed or fail: when it is over,
\* the passes are max(1, timeout // 2) and the sleeps one fewer.
C4_PassesAndSleeps ==
    Supported /\ pc \in {"returned", "raised"} =>
        /\ i = (IF timeout \div 2 > 1 THEN timeout \div 2 ELSE 1)
        /\ sleeps = i - 1

\* C5: on macOS and on Linux the connected identity is set by the first pass
\* only: no later pass changes it.
C5_FirstPassOnly ==
    [][Supported /\ pc = "loop" /\ i >= 1 => connected_unique_id' = connected_unique_id]_vars

\* C6: with an unsupported selector the call raises at once,
\* NotImplementedError for "windows" and ValueError for any other, before any
\* command has run, any pass was made or any sleep taken, and it never
\* returns a map.
C6_UnsupportedRaises ==
    pc # "idle" /\ ~Supported =>
        /\ pc = "raised"
        /\ raised = (IF target_os = "windows" THEN "NotImplementedError" ELSE "ValueError")
        /\ runs = 0 /\ i = 0 /\ sleeps = 0 /\ reports = 0
        /\ all_networks = EmptyDict

C6_Witness ==
    /\ target_os = "windows" /\ pc = "raised" /\ raised = "NotImplementedError"
    /\ runs = 0 /\ sleeps = 0 /\ all_networks = EmptyDict

\* C7: every band in the map is "2.4GHz", "5GHz" or "Unknown", and on macOS
\* a network on a channel from 1 to 14 has the band "2.4GHz".
C7_BandValues ==
    \A k \in DOMAIN all_networks \ {CURRENT} :
        /\ all_networks[k].band \in {BAND_24, BAND_5, UNKNOWN}
        /\ target_os = "macos" /\ all_networks[k].channel = <<"6">>
              => all_networks[k].band = BAND_24

H_MyHomeWiFi_dashes == <<"M","y","H","o","m","e","W","i","F","i","_","-","-">>

\* the fields every record has
CoreFields ==
    {"ssid", "bssid", "rssi", "signal", "channel", "freq", "band", "mode", "rate", "security"}

RecordsOf(map) == {map[k] : k \in DOMAIN map \ {CURRENT}}

\* the record _finalize_network makes of a name alone
AllDefaults(name) ==
    [ssid |-> name, bssid |-> <<>>, rssi |-> SENTINEL, signal |-> 0,
     noise |-> PyNone, snr |-> PyNone, channel |-> DASHES, freq |-> PyStr(DASHES),
     band |-> UNKNOWN, mode |-> DASHES, rate |-> DASHES, security |-> DASHES]

\* no line of the text of the last pass has the key
NoLine(key) == \A n \in 1..Len(stdout.str) : ~Contains(stdout.str[n], key)

\* the map holds the records of one macOS pass
MacosFirstPass == target_os = "macos" /\ i = 1 /\ reports = 0

\* C12 as amended: every record in the map has ssid, bssid, rssi, signal
\* percent, channel, freq, band, mode, rate and security, with an int rssi
\* and a signal percent in 0..100.  A macOS record has noise and snr too,
\* each an int or None (snr an int exactly when rssi and noise are known),
\* its bssid is the empty string, and a field the parser did not supply holds
\* the default of _finalize_network: "--" for channel, freq, mode, rate and
\* security, "Unknown" for band, -100 for rssi, None for noise.  A Linux
\* record has the flag active besides, and noise and snr only when the
\* matching iw or iwlist record had them.
C12_RecordShape ==
    /\ \A r \in RecordsOf(all_networks) :
         /\ CoreFields \subseteq DOMAIN r
         /\ r.rssi \in Int /\ r.signal \in 0..100
         /\ IF target_os = "macos"
                THEN /\ DOMAIN r = CoreFields \cup {"noise", "snr"}
                     /\ r.bssid = <<>>
                     /\ r.snr = PyNone <=>
                          (r.rssi = SENTINEL \/ r.noise \in {PyNone, PyInt(SENTINEL)})
                     /\ r.freq = PyStr(DASHES) => r.channel = DASHES /\ r.band = UNKNOWN
                ELSE DOMAIN r \ {"noise", "snr"} = CoreFields \cup {"active"}
    /\ target_os = "macos" /\ H_MyHomeWiFi_dashes \in DOMAIN all_networks
         => all_networks[H_MyHomeWiFi_dashes] = AllDefaults(SubSeq(H_MyHomeWiFi_dashes, 1, 10))
    /\ MacosFirstPass =>
         \A r \in RecordsOf(all_networks) :
             /\ NoLine(K_SECURITY) => r.security = DASHES
             /\ NoLine(K_NETWORK_TYPE) => r.mode = DASHES
             /\ NoLine(K_TRANSMIT_RATE) => r.rate = DASHES

\* a macOS call returned the map with a network the text only named
C12_Witness ==
    /\ target_os = "macos" /\ pc = "returned"
    /\ H_MyHomeWiFi_dashes \in DOMAIN all_networks
    /\ all_networks[H_MyHomeWiFi_dashes].channel = DASHES
    /\ all_networks[H_MyHomeWiFi_dashes].noise = PyNone
    /\ H_Office5G_5745 \in DOMAIN all_networks

\* C12 as stated: every record in the map has all twelve fields, none of
\* them null, and the placeholder of channel and freq is "Unknown".
C12_CompleteRecords ==
    \A r \in RecordsOf(all_networks) :
        /\ CoreFields \cup {"noise", "snr"} \subseteq DOMAIN r
        /\ r.noise # PyNone /\ r.snr # PyNone
        /\ r.channel # DASHES /\ r.freq # PyStr(DASHES)

\* the secondary record d has the SSID of the primary record p and a
\* frequency less than 10 away from its own
Matches(p, d) ==
    /\ d["ssid"] = p["ssid"]
    /\ "freq" \in DOMAIN d /\ IntOk(d["freq"]) /\ IntOk(p["freq"].str)
    /\ IntVal(d["freq"]) - IntVal(p["freq"].str) \in -9..9

\* the secondary records of the pass that match p
MatchesOf(p) ==
    {networks_detailed'[n] : n \in {m \in 1..Len(networks_detailed') :
                                       Matches(p, networks_detailed'[m])}}

\* the reading f of the stored record is the primary's own or a match's
ReadingFrom(new, p, f) ==
    \/ f \notin DOMAIN new /\ f \notin DOMAIN p
    \/ f \in DOMAIN new /\ f \in DOMAIN p /\ new[f] = p[f]
    \/ /\ f \in DOMAIN new
       /\ \E d \in MatchesOf(p) :
            f \in DOMAIN d /\ new[f] = (IF f = "rssi" THEN d[f] ELSE PyInt(d[f]))

\* a step of the Linux loop: a pass that ran to its end or one an exception left
LinuxStepTaken == target_os = "linux" /\ pc = "loop" /\ (i' = i + 1 \/ pc' = "raised")

\* every primary record of the pass is in the map, as the primary source gave
\* it but for the readings of a matching secondary record
KeptPrimary ==
    \A n \in 1..Len(networks') :
        LET k == UniqueId(networks'[n])
            last == LastSighting(networks', k)
        IN  /\ k \in DOMAIN all_networks'
            /\ AgreeBut(all_networks'[k], last, {"rssi", "noise", "snr"})
            /\ \A f \in {"rssi", "noise", "snr"} : ReadingFrom(all_networks'[k], last, f)
            /\ MatchesOf(last) = {} => all_networks'[k] = last

\* C13: in the Linux merge a primary (nmcli) record takes the rssi, noise and
\* snr of a secondary (iw/iwlist) record only when that record has its SSID
\* and a frequency within the tolerance of its own; every other field of it,
\* and every primary record without such a match, is stored as the primary
\* source gave it, and with no secondary records the map holds the primary
\* records unmodified.
C13_MergeKeepsPrimary == [][LinuxStepTaken => KeptPrimary]_vars

\* what scan() reports for a scan whose passes all succeeded and found no
\* network: no error line, "Found 0 networks.", no connected network,
\* "No WiFi networks found.", and an empty list returned
ReportOfNothingFound ==
    [errors |-> 0, found |-> 0, current |-> PyNone, no_networks |-> TRUE, returned |-> <<>>]

\* C18: what scan() reports for a scan in which every pass failed outright
\* differs from what it reports for a scan whose passes succeeded and found
\* zero networks, on macOS and on Linux.
C18_FailureReported ==
    pc = "reported" /\ failed = i => output # ReportOfNothingFound

----------------------------------------------------------------------------
(* Properties of the nmcli pass, under SpecNmcli *)

H_BSSID == <<"A","A",":","B","B",":","C","C",":","D","D",":","E","E",":","F","F">>

\* the printed field with its escaped colons restored, and nothing else done
ColonsRestored(f) == IF f = F_BSSID THEN H_BSSID ELSE f

\* the printed field as the record carries it: escaped colons restored, any
\* other backslash dropped, the blanks around it stripped
Carried(f) ==
    CASE f = F_BSSID -> H_BSSID
      [] f = F_BACKSLASH -> <<"a","b">>
      [] f = F_YES_SP -> F_YES
      [] OTHER -> f

\* the freq as the record carries it: the unit is dropped too
CarriedFreq(f) == IF f = F_2437_MHZ THEN <<"2","4","3","7">> ELSE Carried(f)

\* the signal as the record carries it: an int, 0 for what is not a number
CarriedSignal(f) == IF f = F_80 THEN 80 ELSE 0

\* the identity of the record the line gives
CarriedId ==
    (IF Carried(input[2]) = <<>> THEN <<"<","h","i","d","d","e","n",">">> ELSE Carried(input[2]))
        \o <<"_">> \o CarriedFreq(input[6])

----------------------------------------------------------------------------
(* Properties of the converters, under SpecConvert *)

\* the channels of the valid ranges
ValidChannels == (1..13) \cup (36..64) \cup (100..144) \cup (149..165)

\* the argument denotes the number c: the int, or its decimal str
Denotes(v, c) == v = PyInt(c) \/ v = PyStr(IntStr(c))

\* C15: for every channel c of 1-13, 36-64, 100-144 and 149-165,
\* freq_to_channel(channel_to_freq(c)) denotes c; channel 14 is the one
\* exception: channel_to_freq(14) is 2484 and freq_to_channel(2484) is
\* "Unknown".
C15_RoundTrip ==
    /\ \A c \in ValidChannels :
         pc = "back" /\ Denotes(input, c) => output = PyStr(IntStr(c))
    /\ pc = "freq" /\ Denotes(input, 14) => output = PyInt(2484)
    /\ pc = "back" /\ Denotes(input, 14) => output = PyStr(UNKNOWN)
    /\ pc = "channel" /\ Denotes(input, 2484) => output = PyStr(UNKNOWN)

\* channel 149 went to 5745 and came back as "149"
C15_Witness ==
    pc = "back" /\ input = PyInt(149) /\ output = PyStr(<<"1","4","9">>)

\* the frequency the table gives channel c
TableFreq(c) ==
    CASE 1 <= c /\ c <= 13 -> PyInt(2412 + (c - 1) * 5)
      [] c = 14 -> PyInt(2484)
      [] c \in (36..64) \cup (100..144) \cup (149..165) -> PyInt(5000 + 5 * c)
      [] OTHER -> PyStr(UNKNOWN)

\* C16: channel_to_freq maps c to 2412 + (c - 1) * 5 for 1 <= c <= 13, to
\* 2484 for c = 14, to 5000 + 5 * c for c in 36-64, 100-144 and 149-165, and
\* to "Unknown" for every other integer.
C16_ChannelTable ==
    pc = "freq" /\ "int" \in DOMAIN input => output = TableFreq(input.int)

\* channel 15 is no channel
C16_Witness == pc = "freq" /\ input = PyInt(15) /\ output = PyStr(UNKNOWN)

\* the arguments that are no number, and the numbers out of each range
NotNumeric ==
    input = PyNone \/ ("str" \in DOMAIN input /\ input.str \in {<<"a","b","c">>, <<>>, <<"5",".","5">>, UNKNOWN})
OffChannels == "int" \in DOMAIN input /\ input.int \notin ValidChannels \cup {14}
OffFreqs == "int" \in DOMAIN input /\ input.int \notin (2412..2472) \cup (5180..5825)

\* C17: channel_to_freq and freq_to_channel are total: each returns a value
\* for every argument, no exception leaves it, and for an argument that is no
\* number, that is negative or that is out of range the value is "Unknown".
C17_Total ==
    pc \in {"freq", "channel", "back"} =>
        /\ "exc" \notin DOMAIN output
        /\ pc = "freq" /\ (NotNumeric \/ OffChannels) => output = PyStr(UNKNOWN)
        /\ pc = "channel" /\ (NotNumeric \/ OffFreqs) => output = PyStr(UNKNOWN)
        /\ pc = "freq" /\ input = PyStr(<<"-","5">>) => output = PyStr(UNKNOWN)

\* freq_to_channel(None) returned "Unknown"
C17_Witness == pc = "channel" /\ input = PyNone /\ output = PyStr(UNKNOWN)

----------------------------------------------------------------------------
(* Properties of monitor_ssid, under SpecMonitor *)

\* the number of networks the scan lists
Listed ==
    CASE input.text = T_OFF -> 0
      [] input.text = T_SINGLE -> 1
      [] input.text \in {T_LISTED, T_ROAMED} -> 2

\* the number typed, 0 standing for what is no number in 1..3
Typed ==
    CASE input.choice = <<"1">> -> 1
      [] input.choice = <<"2">> -> 2
      [] input.choice = <<"3">> -> 3
      [] OTHER -> 0

\* the SSIDs the scan lists
ListedSsids ==
    CASE input.text = T_OFF -> {}
      [] input.text = T_SINGLE -> {<<"O","f","f","i","c","e","5","G">>}
      [] OTHER -> {<<"M","y","H","o","m","e","W","i","F","i">>, <<"O","f","f","i","c","e","5","G">>}

\* C19: in the interactive selection over N listed networks every entry that
\* is not a number in 1..N (0, a negative number, a number above N, text that
\* is no number) is reported as an invalid selection and the operation is
\* aborted: no network is selected and no sample row is printed.
C19_InvalidSelection ==
    pc # "arg" /\ input.ssid = <<>> /\ Typed \notin 1..Listed =>
        /\ output.says = "Invalid selection."
        /\ output.ssid_id = PyNone /\ output.rows = 0 /\ pc = "returned"

\* C20: monitor_ssid called with a non-empty SSID never raises: when no
\* scanned network has the SSID it says that the SSID was not found and
\* returns without a sample row, and when one network has it that network is
\* selected and sampling starts.
C20_NamedLookup ==
    pc # "arg" /\ input.ssid # <<>> =>
        /\ output.raised = "" /\ pc # "raised"
        /\ IF input.ssid \in ListedSsids
              THEN output.ssid_id # PyNone /\ output.says = "Monitoring SSID"
              ELSE output.says = "not found!" /\ output.rows = 0

----------------------------------------------------------------------------
(* The keys of the map over the passes of one call, under Spec *)

\* the identity keys of a map: every key but the reserved one
IdentityKeys(map) == DOMAIN map \ {CURRENT}

\* a pass the macOS loop reported and skipped
MacosPassFailed == target_os = "macos" /\ i' = i + 1 /\ reports' = reports + 1

\* the step that returns the map
Returning == pc = "loop" /\ pc' = "returned"

\* C21: during one call the identity keys of the map only grow: a pass that
\* completes adds the identities it saw and removes none, a pass that fails
\* leaves the keys as they were, and the return adds the reserved key alone,
\* so that the returned identity keys are the union over the successful passes.
C21_KeysOnlyGrow ==
    [][/\ pc = "loop" => IdentityKeys(all_networks) \subseteq IdentityKeys(all_networks')
       /\ MacosPassDone \/ LinuxPassDone =>
              IdentityKeys(all_networks') = IdentityKeys(all_networks) \cup Keys(networks')
       /\ MacosPassFailed => IdentityKeys(all_networks') = IdentityKeys(all_networks)
       /\ Returning => IdentityKeys(all_networks') = IdentityKeys(all_networks)]_vars

\* a call of two passes returned a map holding a network that its last
\* successful pass did not see
C21_Witness ==
    /\ pc = "returned" /\ i = 2
    /\ H_MyHomeWiFi_2437 \in IdentityKeys(all_networks)
    /\ H_MyHomeWiFi_2437 \notin Keys(networks)
    /\ IdentityKeys(all_networks) # {H_MyHomeWiFi_2437}

----------------------------------------------------------------------------
(* The reserved key of the returned map, under Spec *)

\* a value get_wifi_networks files under 'current': None or a str
IsIdentityOrNone(v) == v = PyNone \/ DOMAIN v = {"str"}

----------------------------------------------------------------------------
(* Repeated macOS passes over one text, under Spec *)

\* a macOS pass that completes on the text the pass before it read, no pass
\* of the call having failed
MacosPassRepeated ==
    /\ MacosPassDone /\ i >= 1 /\ reports = 0
    /\ stdout' = stdout

\* C23: on macOS, when every pass receives the same text, the returned map
\* does not depend on the number of passes: a pass that repeats the text of
\* the pass before leaves every record as it was, field for field, the rate
\* that the first pass set on the connected network included.
C23_RepetitionIndependent ==
    [][MacosPassRepeated =>
          /\ all_networks' = all_networks
          /\ connected_unique_id' = connected_unique_id]_vars

----------------------------------------------------------------------------
(* The connected identity against the keys of the map, under Spec *)

\* the connected identity is None or the key of a record of the map
Filed(conn, map) == conn = PyNone \/ conn.str \in IdentityKeys(map)

\* C24 as stated: when get_wifi_networks returns, the identity under
\* 'current' is None or the key of a record of the same map, on macOS and on
\* Linux.
C24_ConnectedPresent ==
    pc \in {"returned", "reported"} => Filed(all_networks[CURRENT], all_networks)

\* C24: the identity under 'current' is the connected identity of the call;
\* on Linux it is None or the key of a record of the map at every step; on
\* macOS it is the key of a record exactly when a pass listed that identity
\* among the other networks, and is returned without a record otherwise.
C24_ConnectedLookup ==
    [][/\ target_os' = "linux" => Filed(connected_unique_id', all_networks')
       /\ MacosPassDone /\ connected_unique_id' # PyNone =>
              (connected_unique_id'.str \in IdentityKeys(all_networks')
                  <=> \/ connected_unique_id'.str \in IdentityKeys(all_networks)
                      \/ connected_unique_id'.str \in Keys(networks'))
       /\ Returning =>
              /\ all_networks'[CURRENT] = connected_unique_id
              /\ Filed(all_networks'[CURRENT], all_networks')
                     <=> Filed(connected_unique_id, all_networks)]_vars

\* a macOS call returned the identity of the connected network, which no
\* pass listed among the others: the map holds no record under it
C24_Witness ==
    /\ target_os = "macos" /\ pc = "returned"
    /\ all_networks[CURRENT] = PyStr(H_MyHomeWiFi_2437)
    /\ H_MyHomeWiFi_2437 \notin IdentityKeys(all_networks)
    /\ H_Office5G_5745 \in IdentityKeys(all_networks)

=============================================================================
